---- MODULE Spec2Model ----
(***************************************************************************)
(* Ingestion pipeline of recall-apis: upload_file / processar_csv hand a   *)
(* list of CNJ numbers to processar_lote, which fetches each chunk with    *)
(* consultar_numero (tenacity retry) and persists the results one by one   *)
(* with salvar_processo on a per-chunk database session.                   *)
(***************************************************************************)
EXTENDS Integers, Sequences, FiniteSets, TLC

(* ------------------------------ bounds --------------------------------- *)
\* longest uploaded list when a single request runs
MaxLen == 3
\* longest uploaded list where either tenacity release is installed
MaxLenShort == 1
\* worker.BATCH_SIZE (200 in worker.py:21), scaled down
BATCH_SIZE == 2
\* upload_file's batch_size (200 in main.py:131), scaled down
batch_size == 2
\* largest chunk size tried on the chunks helper
MaxB == 3
\* longest monetary text tried character by character
MaxChars == 3
\* cells of an uploaded sheet whose cells are not all well-formed
MaxCells == 2
\* parties of one source of a stored case
MaxEnvolvidos == 2
\* sources of a fetched record whose collections vary one by one
MaxFontes == 1
\* first digits of the case numbers formatar_cnj is given
MaxDigit == 4

(* ------------------------- program constants --------------------------- *)
\* stop_after_attempt(3)
MAX_ATTEMPTS == 3
\* wait_exponential(multiplier=1, min=2, max=10)
WAIT_MULTIPLIER == 1
WAIT_MIN == 2
WAIT_MAX == 10

\* the case numbers that occur in files and in the store
Nums == {1, 2}
\* the requests
Runs == {1, 2}

(* ------------------------------ helpers -------------------------------- *)
Min2(a, b) == IF a <= b THEN a ELSE b
Max2(a, b) == IF a >= b THEN a ELSE b

RECURSIVE Pow2(_)
Pow2(k) == IF k <= 0 THEN 1 ELSE 2 * Pow2(k - 1)

\* Python slice lst[a:b] (0-based, end exclusive, clamped to the list)
Slice(lst, a, b) == SubSeq(lst, a + 1, Min2(b, Len(lst)))

\* all sequences over S of length at most n
RECURSIVE SeqsUpTo(_, _)
SeqsUpTo(S, n) ==
    IF n = 0 THEN {<<>>}
    ELSE LET shorter == SeqsUpTo(S, n - 1)
         IN  shorter \cup {Append(s, x) : s \in {t \in shorter : Len(t) = n - 1}, x \in S}

RECURSIVE Flatten(_)
Flatten(ss) == IF ss = <<>> THEN <<>> ELSE Head(ss) \o Flatten(Tail(ss))

SeqRange(s) == {s[k] : k \in 1..Len(s)}

\* Python values: None, a text, the float nan
None == [k |-> "None"]
\* a missing spreadsheet cell (float nan)
NaN == [k |-> "nan"]
Str(s) == [k |-> "str", s |-> s]
\* Python truthiness of such a value: None and "" are falsy, nan is truthy
IsTruthy(v) == v.k = "nan" \/ (v.k = "str" /\ v.s # <<>>)

(* --------------------------- chunking ---------------------------------- *)
\* a slice that ends one element early
Batch_short(numeros_cnj, i, size) == Slice(numeros_cnj, i, i + size - 1)

\* a slice that ends one element late
Batch_long(numeros_cnj, i, size) == Slice(numeros_cnj, i, i + size + 1)

\* worker.py 265: batch = numeros_cnj[i:i + BATCH_SIZE]; main.py 133 and 150
\* cut their slices with the same expression
Batch(numeros_cnj, i, size) == Slice(numeros_cnj, i, i + size)

(* --------------------------- tenacity ---------------------------------- *)
\* giving up one attempt early
stop_after_attempt_2(attempt_number) == attempt_number >= MAX_ATTEMPTS - 1

\* stop_after_attempt(3): stop once attempt_number >= 3
stop_after_attempt(attempt_number) == attempt_number >= MAX_ATTEMPTS

\* a backoff without the lower limit min=2
wait_exponential_nomin(attempt_number, origin) ==
    Min2(WAIT_MULTIPLIER * Pow2(attempt_number - origin), WAIT_MAX)

\* wait_exponential.__call__: exp = exp_base ** (attempt_number - origin);
\* max(max(0, min), min(multiplier * exp, max)).  origin is 1 in current
\* tenacity releases (first exponent 0) and 0 in the releases before the
\* exponent was shifted (first exponent 1).
wait_exponential(attempt_number, origin) ==
    Max2(Max2(0, WAIT_MIN),
         Min2(WAIT_MULTIPLIER * Pow2(attempt_number - origin), WAIT_MAX))

(* ------------------- values returned by the API ------------------------ *)
\* how one attempt of consultar_numero can fail (consultas.py 23-27): a status
\* other than 200, a transport error, the 15 unit timeout, a body that is not JSON
FailKinds == {"http_4xx", "http_5xx", "transport", "timeout", "json"}

\* what gather collects for one case number: the RetryError of an exhausted
\* call, or the JSON of a 200 response (resp.json() gives any JSON value).
\* An exception is its class and what its arguments carry.
\* consultas.py 23-27: what a failed attempt raises.  Only line 26 builds a
\* message, f"Erro HTTP {resp.status} para {numero}"; the timeout, the
\* transport error and the JSON decoding error come from the libraries
AttemptError(kind, numero) ==
    IF kind = "http_4xx"
    THEN [t |-> "exc", cls |-> "Exception", tags |-> {<<"numero", numero>>, <<"status", 404>>}]
    ELSE IF kind = "http_5xx"
    THEN [t |-> "exc", cls |-> "Exception", tags |-> {<<"numero", numero>>, <<"status", 500>>}]
    ELSE IF kind = "timeout"
    THEN [t |-> "exc", cls |-> "TimeoutError", tags |-> {}]
    ELSE IF kind = "transport"
    THEN [t |-> "exc", cls |-> "ClientError", tags |-> {}]
    ELSE [t |-> "exc", cls |-> "ContentTypeError", tags |-> {}]
\* tenacity (reraise left False): RetryError(last_attempt), which has no
\* argument of its own and holds the outcome of the last attempt
RetryError(last) ==
    [t |-> "exc", cls |-> "RetryError", tags |-> {}, last_attempt |-> last]
\* an exception tenacity does not retry would leave the call as it is
Raised(last) == last
Falsy == [t |-> "falsy"]
NonDict == [t |-> "list"]

Fonte1(capa) ==
    [capa |-> capa, audiencias |-> 1,
     envolvidos |-> << [advogados |-> << [oabs |-> 1] >>] >>]
Capa1 == [valor_causa |-> TRUE, informacoes_complementares |-> 1]

\* a record with every nested collection present
FullRecord(n) ==
    [t |-> "dict", numero_cnj |-> n,
     processos_relacionados |-> << "dict" >>, fontes |-> << Fonte1(<<Capa1>>) >>]
\* a record without any nested collection
BareRecord(n) ==
    [t |-> "dict", numero_cnj |-> n,
     processos_relacionados |-> <<>>, fontes |-> <<>>]
\* "processos_relacionados": [{...}, "x"]: rel.get raises on the second item
BadChildRecord(n) ==
    [t |-> "dict", numero_cnj |-> n,
     processos_relacionados |-> << "dict", "str" >>, fontes |-> << Fonte1(<<>>) >>]
Records(n) == {FullRecord(n), BareRecord(n), BadChildRecord(n)}
Responses(n) == Records(n) \cup {Falsy, NonDict}

\* Python truthiness of a gathered value (elif r:)
Truthy(r) == r.t \in {"dict", "list"}
\* isinstance(r, Exception)
IsException(r) == r.t = "exc"

\* str.isdigit() on the characters of the texts below
DecimalDigits == << "0", "1", "2", "3", "4", "5", "6", "7", "8", "9" >>
isdigit(str) == str # << >> /\ \A k \in 1..Len(str) : str[k] \in SeqRange(DecimalDigits)

(* ---------------- the entity tree salvar_processo builds --------------- *)
Step(kind, path) == [kind |-> kind, path |-> path]
RAISE == Step("raise", <<>>)

\* worker.py 151-195: Capa, its ValorCausa and InformacaoComplementar rows
CapaSteps(f, fi) ==
    IF f.capa = <<>> THEN <<>>
    ELSE LET c == f.capa[1]
         IN  << Step("Capa", <<fi>>) >>
             \o (IF c.valor_causa THEN << Step("ValorCausa", <<fi>>) >> ELSE <<>>)
             \o [k \in 1..c.informacoes_complementares |->
                    Step("InformacaoComplementar", <<fi, k>>)]

\* worker.py 198-210
AudienciaSteps(f, fi) ==
    [k \in 1..f.audiencias |-> Step("Audiencia", <<fi, k>>)]

\* worker.py 232-254: one Advogado and its OAB rows
AdvogadoSteps(adv, fi, e, a) ==
    << Step("Advogado", <<fi, e, a>>) >>
    \o [o \in 1..adv.oabs |-> Step("OAB", <<fi, e, a, o>>)]

\* worker.py 213-254
EnvolvidoSteps(f, fi) ==
    Flatten([e \in 1..Len(f.envolvidos) |->
        << Step("Envolvido", <<fi, e>>) >>
        \o Flatten([a \in 1..Len(f.envolvidos[e].advogados) |->
               AdvogadoSteps(f.envolvidos[e].advogados[a], fi, e, a)])])

\* a fonte whose children are only added below a capa
FonteSteps_under_capa(f, fi) ==
    << Step("Fonte", <<fi>>) >>
    \o (IF f.capa = <<>> THEN <<>>
        ELSE CapaSteps(f, fi) \o AudienciaSteps(f, fi) \o EnvolvidoSteps(f, fi))

\* worker.py 85-254: one fonte, in the order the code adds the rows
FonteSteps(f, fi) ==
    << Step("Fonte", <<fi>>) >> \o CapaSteps(f, fi)
    \o AudienciaSteps(f, fi) \o EnvolvidoSteps(f, fi)

\* worker.py 78-82: rel.get(...) raises AttributeError on a non-dict item
RelacionadoSteps(data) ==
    [k \in 1..Len(data.processos_relacionados) |->
        IF data.processos_relacionados[k] = "dict"
        THEN Step("ProcessoRelacionado", <<k>>) ELSE RAISE]

\* worker.py 77-254: every child the record asks for, in insertion order
ChildSteps(data) ==
    RelacionadoSteps(data)
    \o Flatten([fi \in 1..Len(data.fontes) |-> FonteSteps(data.fontes[fi], fi)])

\* the steps that run before the first raise
RECURSIVE UntilRaise(_)
UntilRaise(steps) ==
    IF steps = <<>> \/ Head(steps) = RAISE THEN <<>>
    ELSE << Head(steps) >> \o UntilRaise(Tail(steps))

Raises(steps) == RAISE \in SeqRange(steps)

\* a stored row: entity kind, owning case number, position in the tree and
\* the salvar_processo call (request, list position) that inserted it
Row(kind, cnj, path, by) == [kind |-> kind, cnj |-> cnj, path |-> path, by |-> by]
RowsOf(steps, cnj, by) == {Row(steps[k].kind, cnj, steps[k].path, by) : k \in 1..Len(steps)}
ProcessoRow(cnj, by) == Row("Processo", cnj, <<>>, by)

\* the complete tree of a record
FullTree(data, by) ==
    {ProcessoRow(data.numero_cnj, by)} \cup RowsOf(ChildSteps(data), data.numero_cnj, by)

\* rows of a store seeded before the requests start
Seed == <<0, 0>>
SeedRows(S) == UNION {FullTree(FullRecord(n), Seed) : n \in S}

(* ------------------------------ state ---------------------------------- *)
VARIABLES
    store,          \* committed rows of the database
    origin,         \* exponent origin of the installed tenacity release
    faults,         \* the ways a request of this deployment's network fails
    inbox,          \* inbox[r]: the "numero" column of the file of request r
    via,            \* "none", "upload_file" or "processar_csv"
    pc,             \* position of request r
    numeros_para,   \* numeros_cnj_para_processar (or the csv list)
    existing_cnjs,  \* upload_file: numbers found stored by the filter query
    start,          \* upload_file's loop variable
    numeros_cnj,    \* argument of the running processar_lote call
    stored_at_call, \* list positions whose number had a Processo when the
                    \* processar_lote call holding them was made
    i,              \* processar_lote's loop variable
    task,           \* task[r][p]: the consultar_numero call of list position p
    resultados,     \* what gather returned for the current chunk
    j,              \* index of the persistence loop in resultados
    sp,             \* position inside salvar_processo / the except handler
    pending,        \* rows added to db_session and not yet committed
    out,            \* out[r][p]: how list position p ended
    max_att,        \* max_att[r]: most attempts a call of the current chunk needed
    session,        \* session[r]: the aiohttp.ClientSession of the current chunk
    db_session,     \* db_session[r]: the database session of the current chunk
    sessions,       \* sessions[r]: sessions of either kind the run has created
    completed,      \* completed[r]: positions of the chunk in the order their fetches ended
    clst, cn,       \* chunks(lst, n): its arguments,
    ci, cout,       \* its loop variable and the chunks it has yielded
    field,          \* the field a coercion block is working on
    raw,            \* the value the block reads from the JSON or the sheet
    coerced,        \* the value the block hands to the entity
    logged,         \* the log lines the block wrote
    cpc,             \* "idle", "ready", "done" or "raised"
    dados,          \* rows of the table of DadosPrecatorio, in insertion order
    dfile,          \* the "numero" column of the sheet of the current upload
    dprev,          \* the column of the upload before it
    df,             \* the frame after main.py 216-217
    drow,           \* rows of df the loop of main.py 232 has passed
    to_insert,      \* dados_precatorios_to_insert
    ano_orcamentario,   \* row.get("ano_orcamentario") of every row of df
    dpc,            \* position of upload_dados_precatorios
    dresp,          \* what its last caller got
    db,             \* the cases of the tribunal with their sources and parties
    ek,             \* cases the loop of main.py 841 has passed
    df_list,        \* the rows built so far
    req_final,      \* the sheet "Requerentes"
    adv_final,      \* the sheet "Advogados"
    epc,            \* position of download_requerentes_advogados_xlsx
    environ,        \* ESCAVADOR_API_KEY in the environment or the .env file
    ESCAVADOR_API_KEY,  \* the global of consultas.py
    proc,           \* the server process: "starting", "up" or "failed"
    processo,       \* a stored case the two lists of precatorios export
    zip_row,        \* what download_precatorios_zip makes of it
    csv_row,        \* what download_precatorios_csv makes of it
    cnj_in,         \* the value formatar_cnj is called with
    cnj_out,        \* what it returns
    cnj_again,      \* what it returns for that value
    fpc,            \* "idle", "ready", "once", "twice" or "raised"
    filename,       \* filename[r]: file.filename of upload request r
    content,        \* content[r]: the bytes request r uploaded
    uploads,        \* the directory UPLOAD_DIR: file name -> inode, 0 when absent
    inodes,         \* inode -> the bytes it holds
    fd,             \* fd[r]: the inode request r holds open for writing, 0 when none
    rawdata,        \* rawdata[r]: the bytes request r read back and parses
    tpc             \* tpc[r]: position of request r in main.py 67-96

chunkVars == << clst, cn, ci, cout >>
\* the sessions a chunk works with
sessVars == << session, db_session, sessions >>
\* the ingestion pipeline: upload_file, processar_lote, salvar_processo
pipeVars == << store, origin, faults, inbox, via, pc, numeros_para, existing_cnjs,
               start, numeros_cnj, stored_at_call, i, task, resultados, j, sp,
               pending, out, max_att, completed, sessVars >>
\* what the pipeline never touches
coerceVars == << field, raw, coerced, logged, cpc >>
\* the second ingestion path
dadosVars == << dados, dfile, dprev, df, drow, to_insert, ano_orcamentario, dpc, dresp >>
\* the export of parties and attorneys
exportVars == << db, ek, df_list, req_final, adv_final, epc >>
\* the start of the process
bootVars == << environ, ESCAVADOR_API_KEY, proc >>
\* the two lists of precatorios
tipoVars == << processo, zip_row, csv_row >>
\* formatar_cnj on texts
cnjVars == << cnj_in, cnj_out, cnj_again, fpc >>
\* the temporary files of upload_file
tempVars == << filename, content, uploads, inodes, fd, rawdata, tpc >>
sideVars == << chunkVars, coerceVars, dadosVars, exportVars, bootVars, tipoVars, cnjVars, tempVars >>
vars == << pipeVars, sideVars >>

\* no session has been created yet
NoSession == [id |-> 0, open |-> FALSE]
\* a session object that is handed out again
AsyncSessionLocal_shared(created) == [id |-> created, open |-> TRUE]

\* worker.py 272: AsyncSessionLocal() makes a new session at every call
AsyncSessionLocal(created) == [id |-> created + 1, open |-> TRUE]
\* worker.py 268: aiohttp.ClientSession() makes a new session at every call
ClientSession(created) == [id |-> created + 1, open |-> TRUE]
\* the end of an async with block
Closed(sess) == [sess EXCEPT !.open = FALSE]

NewTask == [st |-> "new", att |-> 0, waits |-> <<>>, val |-> Falsy]

\* numbers with a committed Processo
Stored(rows) == {x.cnj : x \in {y \in rows : y.kind = "Processo"}}

\* list position (in numeros_para) of entry k of the current chunk
Pos(r, k) == start[r] + i[r] + k
\* positions of the current chunk
ChunkPos(r) == {Pos(r, k) : k \in 1..Len(Batch(numeros_cnj[r], i[r], BATCH_SIZE))}

InitWith(files, seeds, origins, nets) ==
    /\ store \in {SeedRows(S) : S \in seeds}
    /\ origin \in origins
    /\ faults \in nets
    /\ inbox \in files
    /\ via = [r \in Runs |-> "none"]
    /\ pc = [r \in Runs |-> "idle"]
    /\ numeros_para = [r \in Runs |-> <<>>]
    /\ existing_cnjs = [r \in Runs |-> {}]
    /\ start = [r \in Runs |-> 0]
    /\ numeros_cnj = [r \in Runs |-> <<>>]
    /\ stored_at_call = [r \in Runs |-> {}]
    /\ i = [r \in Runs |-> 0]
    /\ task = [r \in Runs |-> <<>>]
    /\ resultados = [r \in Runs |-> <<>>]
    /\ j = [r \in Runs |-> 0]
    /\ sp = [r \in Runs |-> "none"]
    /\ pending = [r \in Runs |-> {}]
    /\ out = [r \in Runs |-> <<>>]
    /\ max_att = [r \in Runs |-> 1]
    /\ session = [r \in Runs |-> NoSession]
    /\ db_session = [r \in Runs |-> NoSession]
    /\ sessions = [r \in Runs |-> 0]
    /\ completed = [r \in Runs |-> <<>>]

\* the chunks helper is not running
NoChunks == clst = <<>> /\ cn = 1 /\ ci = 0 /\ cout = <<>>
\* no coercion block is running
NoCoerce ==
    /\ field = "none" /\ raw = [k |-> "None"] /\ coerced = [k |-> "unset"]
    /\ logged = <<>> /\ cpc = "idle"
\* no complementary upload was made
NoDados ==
    /\ dados = <<>> /\ dfile = <<>> /\ dprev = <<>> /\ df = <<>> /\ drow = 0
    /\ to_insert = <<>> /\ dpc = "idle" /\ dresp = [status |-> 0, inserted |-> 0]
    /\ ano_orcamentario = <<>>
\* no export was asked for
NoExport ==
    /\ db = <<>> /\ ek = 0 /\ df_list = <<>> /\ req_final = <<>> /\ adv_final = <<>>
    /\ epc = "idle"
\* the process was started with a key and is serving
Started ==
    /\ environ = Str(<< "k", "1" >>) /\ ESCAVADOR_API_KEY = Str(<< "k", "1" >>)
    /\ proc = "up"
\* no list of precatorios was asked for
NoTipo ==
    /\ processo = [sigla |-> << >>, fontes |-> << >>]
    /\ zip_row = [k |-> "unset"] /\ csv_row = [k |-> "unset"]
\* formatar_cnj is not being looked at on its own
NoCnj ==
    /\ cnj_in = None /\ cnj_out = None /\ cnj_again = None /\ fpc = "idle"
\* no upload has touched the directory of temporary files
NoTemp ==
    /\ filename = <<>> /\ content = <<>> /\ uploads = <<>> /\ inodes = <<>>
    /\ fd = <<>> /\ rawdata = <<>> /\ tpc = <<>>
\* nothing but the pipeline runs
NoSide == NoChunks /\ NoCoerce /\ NoDados /\ NoExport /\ Started /\ NoTipo /\ NoCnj /\ NoTemp

\* files for request 1 alone: request 2 never arrives (its file stays empty)
OneFile(maxlen) ==
    {[r \in Runs |-> IF r = 1 THEN f ELSE <<>>] : f \in SeqsUpTo(Nums, maxlen)}
\* files for two requests that overlap in number 1; the first may repeat it
TwoFiles ==
    {[r \in Runs |-> IF r = 1 THEN f ELSE g] :
        f \in {<<1>>, <<1, 1>>}, g \in {<<1>>}}

\* the same file uploaded by both requests
SameFile ==
    {[r \in Runs |-> f] : f \in SeqsUpTo(Nums, Cardinality(Nums))}

\* the store holds nothing, or the tree of number 1
Seeds == {{}, {1}}

\* one request, current tenacity, a network whose failures are 5xx answers
Init == InitWith(OneFile(MaxLen), Seeds, {1}, {{"http_5xx"}}) /\ NoSide
\* two requests on an empty store, current tenacity
InitConc == InitWith(TwoFiles, {{}}, {1}, {{"http_5xx"}}) /\ NoSide
\* the same file uploaded twice, the second time after the first run is over
InitRerun == InitWith(SameFile, Seeds, {1}, {{"http_5xx"}}) /\ NoSide
\* one request, either tenacity release, every kind of failure
InitFetch == InitWith(OneFile(MaxLenShort), Seeds, {0, 1}, {FailKinds}) /\ NoSide

(* ----------------------------- upload_file ----------------------------- *)
\* a file whose repeated numbers stay
drop_duplicates_none(rows) == rows

\* df.drop_duplicates(subset=['numero'], keep='first')
RECURSIVE drop_duplicates(_)
drop_duplicates(rows) ==
    IF rows = <<>> THEN <<>>
    ELSE LET init == drop_duplicates(SubSeq(rows, 1, Len(rows) - 1))
             last == rows[Len(rows)]
         IN  IF last \in SeqRange(init) THEN init ELSE Append(init, last)

\* [cnj for cnj in numeros_cnj_csv if cnj not in existing_cnjs]
RECURSIVE NotIn(_, _)
NotIn(lst, S) ==
    IF lst = <<>> THEN <<>>
    ELSE (IF Head(lst) \in S THEN <<>> ELSE << Head(lst) >>) \o NotIn(Tail(lst), S)

\* a filter query that finds nothing
Existing_none(rows, lst) == {}

\* select(Processo.numero_cnj).where(Processo.numero_cnj.in_(numeros_cnj_csv))
Existing(rows, lst) == Stored(rows) \cap SeqRange(lst)

\* main.py 87-92: a cell of the column "numero" as the file reader delivers
\* it. A cell is a code: n \in Nums is the case number n in its formatted
\* form NNNNNNN-DD.AAAA.J.TR.OOOO, Unformatted(n) is the same number as 20
\* bare digits, Padded(c) is the text of c with blanks around it, and Missing
\* is the missing value (NaN) of a row whose cell is empty
Missing == 0

Unformatted(n) == 10 + n

Padded(c) == 20 + c

IsPadded(c) == c > 20

IsUnformatted(c) == c \in {Unformatted(n) : n \in Nums}

\* main.py 104: Series.str.strip() removes the blanks and leaves NaN alone
str_strip(c) == IF IsPadded(c) THEN c - 20 ELSE c

\* main.py 49-56: twenty digits get the punctuation, any other text is
\* returned as it is
formatar_cnj(numero) == IF IsUnformatted(numero) THEN numero - 10 ELSE numero

\* main.py 54: "not numero" is false of NaN, and NaN has no isdigit()
formatar_cnj_raises(numero) == numero = Missing

\* main.py 108, worker.py 285: dropna() removes the missing values
dropna(rows) == SelectSeq(rows, LAMBDA c : c # Missing)

\* main.py 59-128: read the file, normalise, deduplicate, filter the stored
\* numbers; answer at once when nothing is new. The exception of line 104
\* is caught by no handler of the function
upload_file(r) ==
    /\ pc[r] = "idle" /\ inbox[r] # <<>>
    /\ LET stripped == [k \in 1..Len(inbox[r]) |-> str_strip(inbox[r][k])]
           failed == \E k \in 1..Len(stripped) : formatar_cnj_raises(stripped[k])
           numero == [k \in 1..Len(stripped) |-> formatar_cnj(stripped[k])]
           numeros_cnj_csv == dropna(drop_duplicates(numero))
           existing == Existing(store, numeros_cnj_csv)
           para == IF failed THEN <<>> ELSE NotIn(numeros_cnj_csv, existing)
       IN  /\ via' = [via EXCEPT ![r] = "upload_file"]
           /\ existing_cnjs' = [existing_cnjs EXCEPT
                                  ![r] = IF failed THEN {} ELSE existing]
           /\ numeros_para' = [numeros_para EXCEPT ![r] = para]
           /\ task' = [task EXCEPT ![r] = [p \in 1..Len(para) |-> NewTask]]
           /\ out' = [out EXCEPT ![r] = [p \in 1..Len(para) |-> "none"]]
           /\ start' = [start EXCEPT ![r] = 0]
           /\ pc' = [pc EXCEPT ![r] = IF failed THEN "raised"
                                      ELSE IF para = <<>> THEN "done"
                                      ELSE "loop"]
    /\ UNCHANGED << sideVars, completed, sessVars, max_att, store, origin, faults, inbox, numeros_cnj, stored_at_call, i,
                    resultados, j, sp, pending >>

\* worker.py 283-287: the csv list, without its missing values, goes to
\* processar_lote as it is
processar_csv(r) ==
    /\ pc[r] = "idle" /\ inbox[r] # <<>>
    /\ via' = [via EXCEPT ![r] = "processar_csv"]
    /\ numeros_para' = [numeros_para EXCEPT ![r] = dropna(inbox[r])]
    /\ task' = [task EXCEPT ![r] = [p \in 1..Len(dropna(inbox[r])) |-> NewTask]]
    /\ out' = [out EXCEPT ![r] = [p \in 1..Len(dropna(inbox[r])) |-> "none"]]
    /\ start' = [start EXCEPT ![r] = 0]
    /\ pc' = [pc EXCEPT ![r] = "loop"]
    /\ UNCHANGED << sideVars, completed, sessVars, max_att, store, origin, faults, inbox, existing_cnjs, numeros_cnj,
                    stored_at_call, i, resultados, j, sp, pending >>

\* size of the slices the caller hands to processar_lote: upload_file cuts
\* batch_size pieces (main.py 131-134), processar_csv passes the whole list
CallerSlice(r) == IF via[r] = "upload_file" THEN batch_size ELSE Len(numeros_para[r])

\* main.py 132-144 / worker.py 287: call processar_lote on the next slice,
\* or return once the list is used up
call_processar_lote(r) ==
    /\ pc[r] = "loop"
    /\ IF start[r] < Len(numeros_para[r])
       THEN /\ numeros_cnj' = [numeros_cnj EXCEPT ![r] =
                                 Batch(numeros_para[r], start[r], CallerSlice(r))]
            /\ stored_at_call' = [stored_at_call EXCEPT ![r] = @ \cup
                    {p \in (start[r] + 1)..Min2(start[r] + CallerSlice(r), Len(numeros_para[r])) :
                        numeros_para[r][p] \in Stored(store)}]
            /\ i' = [i EXCEPT ![r] = 0]
            /\ pc' = [pc EXCEPT ![r] = "lote"]
       ELSE /\ pc' = [pc EXCEPT ![r] = "done"]
            /\ UNCHANGED << numeros_cnj, stored_at_call, i >>
    /\ UNCHANGED << sideVars, completed, sessVars, max_att, store, origin, faults, inbox, via, numeros_para, existing_cnjs, start,
                    task, resultados, j, sp, pending, out >>

(* --------------------------- processar_lote ---------------------------- *)
\* worker.py 264-270: the next chunk opens a ClientSession and starts one
\* consultar_numero call per number; after the last chunk the call returns
lote_next(r) ==
    /\ pc[r] = "lote"
    /\ IF i[r] < Len(numeros_cnj[r])
       THEN /\ task' = [task EXCEPT ![r] =
                          [p \in DOMAIN task[r] |->
                              IF p \in ChunkPos(r)
                              THEN [task[r][p] EXCEPT !.st = "run", !.att = 1]
                              ELSE task[r][p]]]
            /\ max_att' = [max_att EXCEPT ![r] = 1]
            /\ session' = [session EXCEPT ![r] = ClientSession(sessions[r])]
            /\ sessions' = [sessions EXCEPT ![r] = @ + 1]
            /\ completed' = [completed EXCEPT ![r] = <<>>]
            /\ pc' = [pc EXCEPT ![r] = "gather"]
            /\ UNCHANGED start
       ELSE /\ start' = [start EXCEPT ![r] = @ + CallerSlice(r)]
            /\ pc' = [pc EXCEPT ![r] = "loop"]
            /\ UNCHANGED << task, max_att, session, sessions, completed >>
    /\ UNCHANGED << sideVars, db_session, store, origin, faults, inbox, via, numeros_para, existing_cnjs,
                    numeros_cnj, stored_at_call, i, resultados, j, sp, pending, out >>

\* retry_if_exception_type(Exception): every failure kind is an Exception
retry_if_exception_type(kind) == kind \in FailKinds

\* the call has ended, with a value or with an exception
Ended(t) == t.st \in {"ok", "exc"}
\* gather has handed the result of the call over
Collected(t) == t.st \in {"value", "failure"}

\* consultas.py 14-27: the running attempt fails; tenacity sleeps and tries
\* again, or gives up with RetryError after the last attempt (its attempt
\* counter and waits go with the call)
attempt_fails(r, p) ==
    /\ pc[r] = "gather" /\ p \in DOMAIN task[r] /\ task[r][p].st = "run"
    /\ \E kind \in faults :
         LET t == task[r][p]
         IN  task' = [task EXCEPT ![r][p] =
                 IF ~retry_if_exception_type(kind)
                 THEN [t EXCEPT !.st = "exc", !.att = 0, !.waits = <<>>,
                                !.val = Raised(AttemptError(kind, numeros_para[r][p]))]
                 ELSE IF stop_after_attempt(t.att)
                 THEN [t EXCEPT !.st = "exc", !.att = 0, !.waits = <<>>,
                                !.val = RetryError(AttemptError(kind, numeros_para[r][p]))]
                 ELSE [t EXCEPT !.att = @ + 1,
                                !.waits = Append(@, wait_exponential(t.att, origin))]]
    /\ max_att' = [max_att EXCEPT ![r] = Max2(@, Min2(task[r][p].att + 1, MAX_ATTEMPTS))]
    /\ completed' = [completed EXCEPT ![r] =
                       IF Ended(task'[r][p]) THEN Append(@, p) ELSE @]
    /\ UNCHANGED << sideVars, sessVars, store, origin, faults, inbox, via, pc, numeros_para, existing_cnjs, start,
                    numeros_cnj, stored_at_call, i, resultados, j, sp, pending, out >>

\* consultas.py 24-27: status 200, the call returns resp.json()
attempt_returns(r, p) ==
    /\ pc[r] = "gather" /\ p \in DOMAIN task[r] /\ task[r][p].st = "run"
    /\ \E v \in Responses(numeros_para[r][p]) :
         task' = [task EXCEPT ![r][p] =
                    [@ EXCEPT !.st = "ok", !.val = v, !.att = 0, !.waits = <<>>]]
    /\ completed' = [completed EXCEPT ![r] = Append(@, p)]
    /\ UNCHANGED << sideVars, sessVars, max_att, store, origin, faults, inbox, via, pc, numeros_para, existing_cnjs, start,
                    numeros_cnj, stored_at_call, i, resultados, j, sp, pending, out >>

\* a wait that returns at the first completed task
GatherReady_first(tasks, chunk) == \E p \in chunk : Ended(tasks[p])

\* asyncio.gather(*tasks, return_exceptions=True) returns when every task has
\* ended, whether with a value or with an exception
GatherReady(tasks, chunk) == \A p \in chunk : Ended(tasks[p])

\* results handed over in the order in which the calls ended
as_completed(tasks, first, ended) ==
    [k \in 1..Len(ended) |-> tasks[ended[k]].val]

\* worker.py 269-270: asyncio.gather returns one result per awaitable, in the
\* order of the awaitables (the order of `batch`), not in the order in
\* which they ended
gather(tasks, first, ended) ==
    [k \in 1..Len(ended) |-> tasks[first + k].val]

\* what is remembered of a call once gather has handed its result over (the
\* coroutine is gone): how it ended and the type of its value
Gathered(t) ==
    [st |-> IF t.st = "ok" THEN "value" ELSE IF t.st = "exc" THEN "failure" ELSE t.st,
     att |-> 0, waits |-> <<>>, val |-> [t |-> t.val.t]]

\* worker.py 270-272: gather returns the values and captured exceptions in
\* input order, the ClientSession closes and a database session opens
gather_returns(r) ==
    /\ pc[r] = "gather"
    /\ GatherReady(task[r], ChunkPos(r))
    /\ resultados' = [resultados EXCEPT ![r] =
                        gather(task[r], Pos(r, 0), completed[r])]
    /\ task' = [task EXCEPT ![r] =
                  [p \in DOMAIN task[r] |->
                      IF p \in ChunkPos(r) THEN Gathered(task[r][p])
                      ELSE task[r][p]]]
    /\ j' = [j EXCEPT ![r] = 1]
    /\ pending' = [pending EXCEPT ![r] = {}]
    /\ session' = [session EXCEPT ![r] = Closed(@)]
    /\ db_session' = [db_session EXCEPT ![r] = AsyncSessionLocal(sessions[r])]
    /\ sessions' = [sessions EXCEPT ![r] = @ + 1]
    /\ pc' = [pc EXCEPT ![r] = "persist"]
    /\ UNCHANGED << sideVars, completed, max_att, store, origin, faults, inbox, via, numeros_para, existing_cnjs, start,
                    numeros_cnj, stored_at_call, i, sp, out >>

\* worker.py 273-278: the next result is logged (fetch failure), handed to
\* salvar_processo (truthy value) or passed over (falsy value); after the last
\* one the database session closes and the loop moves to the next chunk
persist_next(r) ==
    /\ pc[r] = "persist" /\ sp[r] = "none"
    /\ IF j[r] <= Len(resultados[r])
       THEN LET res == resultados[r][j[r]]
                p == Pos(r, j[r])
            IN  /\ IF IsException(res)
                   THEN /\ out' = [out EXCEPT ![r][p] = "fetch_logged"]
                        /\ j' = [j EXCEPT ![r] = @ + 1]
                        /\ UNCHANGED sp
                   ELSE IF Truthy(res)
                   THEN /\ sp' = [sp EXCEPT ![r] = "select"]
                        /\ UNCHANGED << out, j >>
                   ELSE /\ out' = [out EXCEPT ![r][p] = "dropped"]
                        /\ j' = [j EXCEPT ![r] = @ + 1]
                        /\ UNCHANGED sp
                /\ UNCHANGED << pc, i, pending, db_session >>
            /\ UNCHANGED resultados
       ELSE /\ pending' = [pending EXCEPT ![r] = {}]
            /\ resultados' = [resultados EXCEPT ![r] = <<>>]
            /\ i' = [i EXCEPT ![r] = @ + BATCH_SIZE]
            /\ db_session' = [db_session EXCEPT ![r] = Closed(@)]
            /\ pc' = [pc EXCEPT ![r] = "lote"]
            /\ UNCHANGED << out, j, sp >>
    /\ UNCHANGED << sideVars, completed, session, sessions, max_att, store, origin, faults, inbox, via, numeros_para, existing_cnjs, start,
                    numeros_cnj, stored_at_call, task >>

(* --------------------------- salvar_processo --------------------------- *)
\* a lookup that never finds the number
LookupFound_never(rows, cnj) == FALSE

\* worker.py 25-26: q.scalar_one_or_none() sees the committed rows
LookupFound(rows, cnj) == cnj \in Stored(rows)

\* a column without the unique constraint
UniqueViolation_none(rows, cnj) == FALSE

\* models.py 23: numero_cnj unique; the INSERT of a number that is committed fails
UniqueViolation(rows, cnj) == cnj \in Stored(rows)

\* the INSERT of a number another open transaction has inserted waits for it
InsertBlocked(r, cnj) ==
    \E r2 \in Runs \ {r} : cnj \in Stored(pending[r2])

\* worker.py 25-28: data["numero_cnj"] raises on a value that is not a dict;
\* a stored number skips the whole construction
salvar_select(r) ==
    /\ sp[r] = "select"
    /\ LET data == resultados[r][j[r]]
       IN  sp' = [sp EXCEPT ![r] =
                IF data.t # "dict" THEN "except"
                ELSE IF LookupFound(store, data.numero_cnj) THEN "commit"
                ELSE "insert"]
    /\ UNCHANGED << sideVars, completed, sessVars, max_att, store, origin, faults, inbox, via, pc, numeros_para, existing_cnjs, start,
                    numeros_cnj, stored_at_call, i, task, resultados, j, pending, out >>

\* worker.py 29-75: build the Processo, session.add, session.flush
salvar_insert(r) ==
    /\ sp[r] = "insert"
    /\ LET data == resultados[r][j[r]]
           by == <<r, Pos(r, j[r])>>
       IN  IF UniqueViolation(store, data.numero_cnj)
           THEN /\ sp' = [sp EXCEPT ![r] = "except"]
                /\ UNCHANGED pending
           ELSE /\ ~InsertBlocked(r, data.numero_cnj)
                /\ pending' = [pending EXCEPT ![r] = @ \cup {ProcessoRow(data.numero_cnj, by)}]
                /\ sp' = [sp EXCEPT ![r] = "children"]
    /\ UNCHANGED << sideVars, completed, sessVars, max_att, store, origin, faults, inbox, via, pc, numeros_para, existing_cnjs, start,
                    numeros_cnj, stored_at_call, i, task, resultados, j, out >>

\* worker.py 77-254: add the children in order, up to the first step that raises
salvar_children(r) ==
    /\ sp[r] = "children"
    /\ LET data == resultados[r][j[r]]
           by == <<r, Pos(r, j[r])>>
           steps == ChildSteps(data)
       IN  /\ pending' = [pending EXCEPT ![r] =
                            @ \cup RowsOf(UntilRaise(steps), data.numero_cnj, by)]
           /\ sp' = [sp EXCEPT ![r] = IF Raises(steps) THEN "except" ELSE "commit"]
    /\ UNCHANGED << sideVars, completed, sessVars, max_att, store, origin, faults, inbox, via, pc, numeros_para, existing_cnjs, start,
                    numeros_cnj, stored_at_call, i, task, resultados, j, out >>

\* worker.py 256: session.commit() stores what the session holds
salvar_commit(r) ==
    /\ sp[r] = "commit"
    /\ store' = store \cup pending[r]
    /\ pending' = [pending EXCEPT ![r] = {}]
    /\ out' = [out EXCEPT ![r][Pos(r, j[r])] =
                 IF pending[r] = {} THEN "noop" ELSE "committed"]
    /\ j' = [j EXCEPT ![r] = @ + 1]
    /\ sp' = [sp EXCEPT ![r] = "none"]
    /\ UNCHANGED << sideVars, completed, sessVars, max_att, origin, faults, inbox, via, pc, numeros_para, existing_cnjs, start,
                    numeros_cnj, stored_at_call, i, task, resultados >>

\* a handler that does not roll back
rollback_skipped(pend) == pend

\* db_session.rollback() discards what the session holds
rollback(pend) == {}

\* worker.py 279-281: rollback, then print(... r.get('numero_cnj') ...); r.get
\* raises AttributeError on a value that is not a dict, and nothing catches
\* it: it leaves the async with block of worker.py 272, which closes the session
except_handler(r) ==
    /\ sp[r] = "except"
    /\ pending' = [pending EXCEPT ![r] = rollback(@)]
    /\ sp' = [sp EXCEPT ![r] = "none"]
    /\ IF resultados[r][j[r]].t # "dict"
       THEN /\ out' = [out EXCEPT ![r][Pos(r, j[r])] = "escaped"]
            /\ pc' = [pc EXCEPT ![r] = "raised"]
            /\ db_session' = [db_session EXCEPT ![r] = Closed(@)]
            /\ UNCHANGED j
       ELSE /\ out' = [out EXCEPT ![r][Pos(r, j[r])] = "save_logged"]
            /\ j' = [j EXCEPT ![r] = @ + 1]
            /\ UNCHANGED << pc, db_session >>
    /\ UNCHANGED << sideVars, completed, session, sessions, max_att, store, origin, faults, inbox, via, numeros_para, existing_cnjs, start,
                    numeros_cnj, stored_at_call, i, task, resultados >>

Next ==
    \E r \in Runs :
        \/ upload_file(r)
        \/ processar_csv(r)
        \/ call_processar_lote(r)
        \/ lote_next(r)
        \/ \E p \in 1..MaxLen : attempt_fails(r, p)
        \/ \E p \in 1..MaxLen : attempt_returns(r, p)
        \/ gather_returns(r)
        \/ persist_next(r)
        \/ salvar_select(r)
        \/ salvar_insert(r)
        \/ salvar_children(r)
        \/ salvar_commit(r)
        \/ except_handler(r)

Spec == Init /\ [][Next]_vars
SpecConc == InitConc /\ [][Next]_vars
SpecFetch == InitFetch /\ [][Next]_vars
\* every attempt ends and every database call returns: a step that can be
\* taken is taken
SpecLive == Init /\ [][Next]_vars /\ WF_vars(Next)

\* the run of request r is over: upload_file returned or an exception left it
RunOver(r) == pc[r] \in {"done", "raised"}

\* main.py 125-144: what the HTTP caller of upload_file gets once the request
\* is over: the notice that nothing is new, the success message with the
\* count of new numbers, or the 500 of an exception nothing caught
upload_response(r) ==
    IF pc[r] = "raised" THEN [status |-> 500, detail |-> "Internal Server Error"]
    ELSE IF numeros_para[r] = <<>>
    THEN [status |-> 200, detail |-> "Nenhum novo precatorio para processar",
          total_existentes |-> Cardinality(existing_cnjs[r])]
    ELSE [status |-> 200, detail |-> "Arquivo processado com sucesso",
          total_novos |-> Len(numeros_para[r]),
          total_existentes |-> Cardinality(existing_cnjs[r])]

\* a client that uploads again once the earlier request has been answered
NextRerun ==
    \E r \in Runs :
        \/ (\A r0 \in Runs : r0 < r => RunOver(r0)) /\ upload_file(r)
        \/ call_processar_lote(r)
        \/ lote_next(r)
        \/ \E p \in 1..MaxLen : attempt_fails(r, p)
        \/ \E p \in 1..MaxLen : attempt_returns(r, p)
        \/ gather_returns(r)
        \/ persist_next(r)
        \/ salvar_select(r)
        \/ salvar_insert(r)
        \/ salvar_children(r)
        \/ salvar_commit(r)
        \/ except_handler(r)

SpecRerun == InitRerun /\ [][NextRerun]_vars

\* the cells a sheet can hold in its column "numero"
Cells == Nums \cup {Missing, Unformatted(1), Padded(2)}
\* one request whose sheet holds any cells
RawFile ==
    {[r \in Runs |-> IF r = 1 THEN f ELSE <<>>] : f \in SeqsUpTo(Cells, MaxCells)}
InitUpload == InitWith(RawFile, Seeds, {1}, {{"http_5xx"}}) /\ NoSide
SpecUpload == InitUpload /\ [][NextRerun]_vars

\* the shapes of a fonte: each of its collections present or not
AnyFontes ==
    {[capa |-> c, audiencias |-> a, envolvidos |-> e] :
        c \in {<<>>} \cup {<< [valor_causa |-> v, informacoes_complementares |-> k] >> :
                              v \in BOOLEAN, k \in 0..1},
        a \in 0..1,
        e \in {<<>>, << [advogados |-> <<>>] >>,
               << [advogados |-> << [oabs |-> 0] >>] >>,
               << [advogados |-> << [oabs |-> 1] >>] >>}}
\* the records of case n whose collections are present or not, one by one
AnyRecords(n) ==
    {[t |-> "dict", numero_cnj |-> n, processos_relacionados |-> rel, fontes |-> fs] :
        rel \in {<<>>, << "dict" >>}, fs \in SeqsUpTo(AnyFontes, MaxFontes)}

\* worker.py 272-273: gather has returned one such record for the one number
\* of the list, and the persistence loop is about to start on an empty store
InitSalvar ==
    /\ store = {}
    /\ origin = 1
    /\ faults = {"http_5xx"}
    /\ inbox = [r \in Runs |-> IF r = 1 THEN << 1 >> ELSE <<>>]
    /\ via = [r \in Runs |-> IF r = 1 THEN "processar_csv" ELSE "none"]
    /\ pc = [r \in Runs |-> IF r = 1 THEN "persist" ELSE "idle"]
    /\ numeros_para = [r \in Runs |-> IF r = 1 THEN << 1 >> ELSE <<>>]
    /\ existing_cnjs = [r \in Runs |-> {}]
    /\ start = [r \in Runs |-> 0]
    /\ numeros_cnj = [r \in Runs |-> IF r = 1 THEN << 1 >> ELSE <<>>]
    /\ stored_at_call = [r \in Runs |-> {}]
    /\ i = [r \in Runs |-> 0]
    /\ task = [r \in Runs |->
                 IF r = 1
                 THEN << Gathered([st |-> "ok", att |-> 0, waits |-> <<>>,
                                   val |-> [t |-> "dict"]]) >>
                 ELSE <<>>]
    /\ \E d \in AnyRecords(1) :
          resultados = [r \in Runs |-> IF r = 1 THEN << d >> ELSE <<>>]
    /\ j = [r \in Runs |-> IF r = 1 THEN 1 ELSE 0]
    /\ sp = [r \in Runs |-> "none"]
    /\ pending = [r \in Runs |-> {}]
    /\ out = [r \in Runs |-> IF r = 1 THEN << "none" >> ELSE <<>>]
    /\ max_att = [r \in Runs |-> 1]
    /\ session = [r \in Runs |-> IF r = 1 THEN Closed(ClientSession(0)) ELSE NoSession]
    /\ db_session = [r \in Runs |-> IF r = 1 THEN AsyncSessionLocal(1) ELSE NoSession]
    /\ sessions = [r \in Runs |-> IF r = 1 THEN 2 ELSE 0]
    /\ completed = [r \in Runs |-> IF r = 1 THEN << 1 >> ELSE <<>>]
    /\ NoSide

\* worker.py 273-278 and salvar_processo on the record
NextSalvar ==
    \E r \in Runs :
        \/ persist_next(r)
        \/ salvar_select(r)
        \/ salvar_insert(r)
        \/ salvar_children(r)
        \/ salvar_commit(r)

SpecSalvar == InitSalvar /\ [][NextSalvar]_vars

(* ------------------------------- chunks -------------------------------- *)
\* main.py 147-150: for i in range(0, len(lst), n): yield lst[i:i + n]
chunks_yield ==
    /\ ci < Len(clst)
    /\ cout' = Append(cout, Batch(clst, ci, cn))
    /\ ci' = ci + cn
    /\ UNCHANGED << clst, cn, pipeVars, tempVars, cnjVars, tipoVars, bootVars, coerceVars, dadosVars, exportVars >>

InitChunks ==
    /\ InitWith({[r \in Runs |-> <<>>]}, {{}}, {1}, {{"http_5xx"}})
    /\ clst \in SeqsUpTo(Nums, MaxLen + 1)
    /\ cn \in 1..MaxB
    /\ ci = 0
    /\ cout = <<>>
    /\ NoCoerce /\ NoDados /\ NoExport /\ Started /\ NoTipo /\ NoCnj /\ NoTemp

NextChunks == chunks_yield

SpecChunks == InitChunks /\ [][NextChunks]_vars

(* --------------------------- field coercion ---------------------------- *)
\* date texts are sequences of digit groups and separators
Years == {"2023"}
Months == {"05", "10", "12"}
Days == {"05", "10", "12", "30"}
Hours == {"05", "10", "12"}
Sixtieths == {"05", "10", "12", "30"}

DateValue(t) == [k |-> "date", y |-> t[1], m |-> t[3], d |-> t[5]]
DateTimeValue(t) ==
    [k |-> "datetime", y |-> t[1], m |-> t[3], d |-> t[5],
     h |-> IF Len(t) >= 7 THEN t[7] ELSE "00",
     mi |-> IF Len(t) >= 9 THEN t[9] ELSE "00",
     sec |-> IF Len(t) >= 11 THEN t[11] ELSE "00"]

\* the text starts with YYYY-MM-DD
StartsWithDate(t) ==
    /\ Len(t) >= 5
    /\ t[1] \in Years /\ t[2] = "-" /\ t[3] \in Months /\ t[4] = "-" /\ t[5] \in Days
\* HH, HH:MM or HH:MM:SS
IsTime(u) ==
    /\ Len(u) \in {1, 3, 5}
    /\ u[1] \in Hours
    /\ \A q \in 2..Len(u) : IF q % 2 = 0 THEN u[q] = ":" ELSE u[q] \in Sixtieths

ValueError == [ok |-> FALSE]
Parsed(v) == [ok |-> TRUE, v |-> v]

\* a parser that ignores what follows the date
strptime_loose(t) ==
    IF StartsWithDate(t) THEN Parsed(DateValue(t)) ELSE ValueError

\* datetime.strptime(text, "%Y-%m-%d").date(): the whole text must be a date
strptime(t) ==
    IF StartsWithDate(t) /\ Len(t) = 5 THEN Parsed(DateValue(t)) ELSE ValueError

\* datetime.fromisoformat(text): a date, or a date, one separator character
\* and a time
fromisoformat(t) ==
    IF /\ StartsWithDate(t)
       /\ \/ Len(t) = 5
          \/ Len(t) >= 7 /\ IsTime(SubSeq(t, 7, Len(t)))
    THEN Parsed(DateTimeValue(t)) ELSE ValueError

\* worker.py 33, 40, 89, 96, 140, 147: the fields read with strptime
DateFields ==
    {"Processo.data_inicio", "Processo.data_ultima_movimentacao",
     "Fonte.data_inicio", "Fonte.data_ultima_movimentacao",
     "Capa.data_distribuicao", "Capa.data_arquivamento"}
\* worker.py 47, 103, 202: the fields read with fromisoformat
DateTimeFields ==
    {"Processo.data_ultima_verificacao", "Fonte.data_ultima_verificacao",
     "Audiencia.data_audiencia"}

\* worker.py 30-49, 86-105, 137-149, 199-204: x = d.get(...); if x and
\* isinstance(x, str): try: x = parse(x) except ValueError: x = None.
\* Nothing is printed, and the value goes to the entity as it is
coerce_date ==
    /\ cpc = "ready" /\ field \in DateFields \cup DateTimeFields
    /\ coerced' =
          IF IsTruthy(raw) /\ raw.k = "str"
          THEN LET res == IF field \in DateFields THEN strptime(raw.s)
                          ELSE fromisoformat(raw.s)
               IN  IF res.ok THEN res.v ELSE None
          ELSE raw
    /\ cpc' = "done"
    /\ UNCHANGED << field, raw, logged, pipeVars, tempVars, cnjVars, tipoVars, bootVars, chunkVars, dadosVars, exportVars >>

\* monetary texts are sequences of characters
Digits == {"1", "2", "3", "4", "5", "6"}
DigitVal(c) == CHOOSE n \in 1..6 : << "1", "2", "3", "4", "5", "6" >>[n] = c
RECURSIVE DigitsToInt(_)
DigitsToInt(ds) ==
    IF ds = <<>> THEN 0
    ELSE 10 * DigitsToInt(SubSeq(ds, 1, Len(ds) - 1)) + DigitVal(ds[Len(ds)])

RECURSIVE Keep(_, _)
Keep(str, S) ==
    IF str = <<>> THEN <<>>
    ELSE (IF Head(str) \in S THEN << Head(str) >> ELSE <<>>) \o Keep(Tail(str), S)

\* str.strip(): leading and trailing blanks go
RECURSIVE lstrip(_)
lstrip(str) == IF str # <<>> /\ Head(str) = " " THEN lstrip(Tail(str)) ELSE str
RECURSIVE rstrip(_)
rstrip(str) ==
    IF str # <<>> /\ str[Len(str)] = " " THEN rstrip(SubSeq(str, 1, Len(str) - 1)) ELSE str
strip(str) == rstrip(lstrip(str))

\* a decimal: num / 10^scale
Float(num, scale) == [k |-> "float", num |-> num, scale |-> scale]

\* float(text) over blanks, digits, "." and other characters: blanks around
\* the number are ignored; digits with at most one "." and at least one digit
float(str) ==
    LET t == strip(str)
        dots == {q \in 1..Len(t) : t[q] = "."}
    IN  IF /\ \A q \in 1..Len(t) : t[q] \in Digits \cup {"."}
           /\ Cardinality(dots) <= 1
           /\ Keep(t, Digits) # <<>>
        THEN Parsed(Float(DigitsToInt(Keep(t, Digits)),
                          IF dots = {} THEN 0
                          ELSE Len(t) - (CHOOSE q \in dots : TRUE)))
        ELSE ValueError

\* str.replace("R$", "")
RECURSIVE remove_currency(_)
remove_currency(str) ==
    IF Len(str) >= 2 /\ str[1] = "R" /\ str[2] = "$"
    THEN remove_currency(SubSeq(str, 3, Len(str)))
    ELSE IF str = <<>> THEN <<>>
    ELSE << Head(str) >> \o remove_currency(Tail(str))

\* a cleaning that leaves the decimal comma
clean_valor_keeps_comma(str) ==
    strip(Keep(remove_currency(str), {c \in SeqRange(str) : c # "."}))

\* main.py 245: .replace("R$", "").replace(".", "").replace(",", ".").strip()
clean_valor(str) ==
    LET a == remove_currency(str)
        b == Keep(a, {c \in SeqRange(a) : c # "."})
        c == [q \in 1..Len(b) |-> IF b[q] = "," THEN "." ELSE b[q]]
    IN  strip(c)

\* worker.py 170-180: valor_str = valor_causa_data.get("valor"); float(valor_str)
\* when it is truthy, None on ValueError or TypeError; the text is not cleaned
\* and nothing is printed
coerce_valor_causa ==
    /\ cpc = "ready" /\ field = "ValorCausa.valor"
    /\ coerced' =
          IF IsTruthy(raw) /\ raw.k = "str"
          THEN LET res == float(raw.s) IN IF res.ok THEN res.v ELSE None
          ELSE None
    /\ cpc' = "done"
    /\ UNCHANGED << field, raw, logged, pipeVars, tempVars, cnjVars, tipoVars, bootVars, chunkVars, dadosVars, exportVars >>

\* main.py 240-249: the cell is cleaned and parsed when it is truthy; a
\* ValueError or TypeError is logged and leaves None; a missing cell is the
\* float nan, truthy, and its .replace raises AttributeError, which is not caught
coerce_valor_deferido ==
    /\ cpc = "ready" /\ field = "DadosPrecatorio.valor_deferido"
    /\ IF ~IsTruthy(raw)
       THEN coerced' = None /\ cpc' = "done" /\ UNCHANGED logged
       ELSE IF raw.k # "str"
       THEN cpc' = "raised" /\ UNCHANGED << coerced, logged >>
       ELSE LET res == float(clean_valor(raw.s))
            IN  /\ coerced' = IF res.ok THEN res.v ELSE None
                /\ logged' = IF res.ok THEN logged
                             ELSE Append(logged, "Valor deferido invalido")
                /\ cpc' = "done"
    /\ UNCHANGED << field, raw, pipeVars, tempVars, cnjVars, tipoVars, bootVars, chunkVars, dadosVars, exportVars >>

\* the date texts tried: a date-like head in every arrangement of year,
\* month, day and separators, followed by nothing, a time or debris
DateTexts ==
    {<<>>}
    \cup {<< a, s1, b, s2, c >> \o tl :
            a \in {"2023", "10"}, s1 \in {"-", "/"}, b \in {"05", "2023", "30"},
            s2 \in {"-", "/"}, c \in {"10", "2023", "30"},
            tl \in {<<>>, << "T", "12" >>, << "T", "12", ":", "30" >>,
                    << " ", "12", ":", "30", ":", "05" >>, << "T" >>,
                    << ":", "30" >>, << "T", "12", ":" >>, << "T", "30" >>}}
\* the monetary texts tried: every short text, and longer formatted amounts
MoneyChars == {"R", "$", " ", "1", "2", ".", ",", "a"}
MoneyTexts ==
    SeqsUpTo(MoneyChars, MaxChars)
    \cup {pre \o body : pre \in {<<>>, << "R", "$" >>, << "R", "$", " " >>},
                        body \in {<< "1", ".", "2", "3", "4", ",", "5", "6" >>,
                                  << "1", "2", ".", "3", "4", "5", ",", "6", "1" >>,
                                  << "1", "2", "3", "4", ".", "5", "6" >>,
                                  << "1", "2", "3", "4", ",", "5", "6" >>,
                                  << "a", "b", "c" >>}}

\* one field and one value are handed to its coercion block
InitCoerce ==
    /\ InitWith({[r \in Runs |-> <<>>]}, {{}}, {1}, {{"http_5xx"}})
    /\ NoChunks /\ NoDados /\ NoExport /\ Started /\ NoTipo /\ NoCnj /\ NoTemp
    /\ field \in DateFields \cup DateTimeFields
                 \cup {"ValorCausa.valor", "DadosPrecatorio.valor_deferido"}
    /\ raw \in {None}
               \cup (IF field \in DateFields \cup DateTimeFields
                     THEN {Str(t) : t \in DateTexts}
                     ELSE {Str(t) : t \in MoneyTexts}
                          \cup (IF field = "DadosPrecatorio.valor_deferido"
                                THEN {NaN} ELSE {}))
    /\ coerced = [k |-> "unset"]
    /\ logged = <<>>
    /\ cpc = "ready"

NextCoerce == coerce_date \/ coerce_valor_causa \/ coerce_valor_deferido

SpecCoerce == InitCoerce /\ [][NextCoerce]_vars

(* ---------------------- upload_dados_precatorios ----------------------- *)
\* a table of DadosPrecatorio that takes any number of rows of one Processo
one_to_one_none(rows) == TRUE

\* DadosPrecatorio is one-to-one with Processo: the table takes no second row
\* of a processo_id
one_to_one(rows) ==
    \A a, b \in 1..Len(rows) : a # b => rows[a].processo_id # rows[b].processo_id

\* the cells of the column "ano_orcamentario": None when the sheet has no
\* such column, the missing value of an empty cell, a year
AnoCells == {None, NaN, Str(<< "2", "4" >>)}
\* the cells of the column "numero" of a sheet of complementary data
DadosCells == Nums \cup {Missing, Unformatted(1)}

\* main.py 181-217: read the sheet, normalise the numbers, drop the repeated
\* ones. The exception of line 216 is caught by no handler
dados_read ==
    /\ dpc = "idle"
    /\ \E f \in SeqsUpTo(DadosCells, MaxCells) :
          LET stripped == [k \in 1..Len(f) |-> str_strip(f[k])]
              failed == \E k \in 1..Len(f) : formatar_cnj_raises(stripped[k])
              numero == [k \in 1..Len(f) |-> formatar_cnj(stripped[k])]
          IN  /\ dfile' = f
              /\ dprev' = dfile
              /\ df' = IF failed THEN <<>> ELSE drop_duplicates(numero)
              /\ ano_orcamentario' \in [1..Len(df') -> AnoCells]
              /\ dpc' = IF failed THEN "idle" ELSE "rows"
              /\ dresp' = IF failed THEN [status |-> 500, inserted |-> 0]
                          ELSE [status |-> 0, inserted |-> 0]
    /\ drow' = 0
    /\ to_insert' = <<>>
    /\ UNCHANGED << dados, pipeVars, tempVars, cnjVars, tipoVars, bootVars, chunkVars, coerceVars, exportVars >>

\* a loop that takes every row, stored or not
Skipped_never(processos_map, numero_cnj) == FALSE

\* main.py 234-237: processos_map.get(numero_cnj) is None for a number that
\* is not stored, and the row is passed over
Skipped(processos_map, numero_cnj) == numero_cnj \notin processos_map

\* main.py 263: int(row["ano_orcamentario"]) if row.get("ano_orcamentario")
\* else None. The missing value of a column that is there is truthy and
\* int() raises ValueError on it, as on a text that is no number; no handler
\* catches it
int_raises(v) == v = NaN \/ (v.k = "str" /\ v.s # <<>> /\ ~isdigit(v.s))

\* main.py 219-269: one row of df. processos_map holds the stored numbers; a
\* row of a number that is not stored is skipped, any other row gives a new
\* DadosPrecatorio, whether or not its Processo has one
dados_row ==
    /\ dpc = "rows" /\ drow < Len(df)
    /\ LET numero_cnj == df[drow + 1]
           processos_map == Stored(store)
       IN  IF Skipped(processos_map, numero_cnj)
           THEN UNCHANGED << to_insert, dpc, dresp >>
           ELSE IF int_raises(ano_orcamentario[drow + 1])
           THEN /\ dpc' = "idle"
                /\ dresp' = [status |-> 500, inserted |-> 0]
                /\ UNCHANGED to_insert
           ELSE /\ to_insert' = Append(to_insert, [processo_id |-> numero_cnj])
                /\ UNCHANGED << dpc, dresp >>
    /\ drow' = drow + 1
    /\ UNCHANGED << dados, dfile, dprev, df, ano_orcamentario, pipeVars, tempVars, cnjVars, tipoVars, bootVars, chunkVars, coerceVars, exportVars >>

\* main.py 271-276: add_all and one commit. A commit the table refuses raises
\* IntegrityError, which no handler catches, and stores none of the rows
dados_commit ==
    /\ dpc = "rows" /\ drow = Len(df)
    /\ IF to_insert = <<>>
       THEN /\ dresp' = [status |-> 200, inserted |-> 0]
            /\ UNCHANGED dados
       ELSE IF one_to_one(dados \o to_insert)
       THEN /\ dados' = dados \o to_insert
            /\ dresp' = [status |-> 200, inserted |-> Len(to_insert)]
       ELSE /\ dresp' = [status |-> 500, inserted |-> 0]
            /\ UNCHANGED dados
    /\ dpc' = "idle"
    /\ UNCHANGED << dfile, dprev, df, drow, to_insert, ano_orcamentario, pipeVars, tempVars, cnjVars, tipoVars, bootVars, chunkVars, coerceVars, exportVars >>

\* every stored set of cases, no upload made yet
InitDados ==
    /\ InitWith({[r \in Runs |-> <<>>]}, SUBSET Nums, {1}, {{"http_5xx"}})
    /\ NoChunks /\ NoCoerce /\ NoDados /\ NoExport /\ Started /\ NoTipo /\ NoCnj /\ NoTemp

NextDados == dados_read \/ dados_row \/ dados_commit

SpecDados == InitDados /\ [][NextDados]_vars

(* ----------------- download_requerentes_advogados_xlsx ----------------- *)
\* attorneys of a party: cpf and the numbers of the OAB entries
AdvDigits == [cpf |-> Str(<< "3" >>), oabs |-> << 10, 20 >>]
AdvPunct == [cpf |-> Str(<< "3", "." >>), oabs |-> << >>]
AdvNoCpf == [cpf |-> None, oabs |-> << 10 >>]
AdvLists == {<< >>, << AdvDigits >>, << AdvNoCpf, AdvPunct >>, << AdvNoCpf, AdvNoCpf >>}

\* parties of a source
Envolvidos ==
    {[tipo_normalizado |-> "Requerente", cpf |-> c, advogados |-> a] :
        c \in {None, Str(<< "1" >>), Str(<< "1", "-" >>), Str(<< "-" >>)},
        a \in AdvLists \ {<< AdvNoCpf, AdvNoCpf >>}}
    \cup {[tipo_normalizado |-> "Autor", cpf |-> Str(<< "1", "-" >>),
           advogados |-> << AdvNoCpf, AdvNoCpf >>],
          [tipo_normalizado |-> "Reu", cpf |-> Str(<< "1" >>),
           advogados |-> << AdvDigits >>]}

\* the sources of the first case: none, one with any parties, or that one and
\* a second with no party or with one more claimant
FontesFirst ==
    {<< >>}
    \cup {<< [envolvidos |-> es] >> : es \in SeqsUpTo(Envolvidos, MaxEnvolvidos)}
    \cup {<< [envolvidos |-> es], [envolvidos |-> more] >> :
            es \in SeqsUpTo(Envolvidos, MaxEnvolvidos),
            more \in {<< >>,
                      << [tipo_normalizado |-> "Requerente", cpf |-> Str(<< "1" >>),
                          advogados |-> << AdvDigits >>] >>}}
\* the sources of a second case
FontesSecond ==
    {<< >>,
     << [envolvidos |-> << >>] >>,
     << [envolvidos |-> << [tipo_normalizado |-> "Autor", cpf |-> Str(<< "1" >>),
                            advogados |-> << AdvDigits >>] >>] >>}
\* the cases select(Processo).where(tribunal_sigla) finds
Databases ==
    {<< >>}
    \cup {<< [numero_cnj |-> 1, fontes |-> f] >> : f \in FontesFirst}
    \cup {<< [numero_cnj |-> 1, fontes |-> f], [numero_cnj |-> 2, fontes |-> g] >> :
            f \in FontesFirst, g \in FontesSecond}

\* main.py 862-873, 941-951: the row of a case alone
BaseRow(p) ==
    [processo_numero_cnj |-> p.numero_cnj, fonte |-> 0,
     envolvido_tipo_normalizado |-> "None", envolvido_cpf |-> None,
     advogado_cpf |-> None, advogado_oab |-> 0]
\* main.py 889-899, 903-912: the row of a source alone
FonteRow(p, f) == [BaseRow(p) EXCEPT !.fonte = f]
\* main.py 915-927: the row of a party without attorney
EnvolvidoRow(p, f, e) ==
    [FonteRow(p, f) EXCEPT !.envolvido_tipo_normalizado = e.tipo_normalizado,
                           !.envolvido_cpf = e.cpf]
\* main.py 929-950: one row for each OAB entry of each attorney, one row for
\* an attorney without OAB entry
AdvogadoRows(p, f, e, a) ==
    IF a.oabs = << >>
    THEN << [EnvolvidoRow(p, f, e) EXCEPT !.advogado_cpf = a.cpf] >>
    ELSE [o \in 1..Len(a.oabs) |->
            [EnvolvidoRow(p, f, e) EXCEPT !.advogado_cpf = a.cpf,
                                          !.advogado_oab = a.oabs[o]]]
\* main.py 901-950
EnvolvidoRows(p, f, e) ==
    IF e.tipo_normalizado \notin {"Requerente", "Autor"} THEN << FonteRow(p, f) >>
    ELSE IF e.advogados = << >> THEN << EnvolvidoRow(p, f, e) >>
    ELSE Flatten([a \in 1..Len(e.advogados) |-> AdvogadoRows(p, f, e, e.advogados[a])])
\* main.py 875-950
FonteRows(p, f) ==
    LET envolvidos == p.fontes[f].envolvidos
    IN  IF envolvidos = << >> THEN << FonteRow(p, f) >>
        ELSE Flatten([k \in 1..Len(envolvidos) |-> EnvolvidoRows(p, f, envolvidos[k])])
\* main.py 841-951: the body of the loop over the cases
ProcessoRows(p) ==
    IF p.fontes = << >> THEN << BaseRow(p) >>
    ELSE LET rows == Flatten([f \in 1..Len(p.fontes) |-> FonteRows(p, f)])
         IN  IF rows = << >> THEN << BaseRow(p) >> ELSE rows

\* Series.astype(str): None becomes the text None
astype_str(v) == IF v.k = "str" THEN v.s ELSE << "N", "o", "n", "e" >>
\* a key that keeps every character of the cell
cpf_clean_raw(v) == astype_str(v)

\* main.py 982-986, 1016-1020: astype(str).str.replace(r"\D+", "")
cpf_clean(v) == Keep(astype_str(v), Digits)

\* drop_duplicates(subset=["processo_numero_cnj", "cpf_clean"], keep="first")
RECURSIVE drop_duplicates_cpf(_, _)
drop_duplicates_cpf(rows, col) ==
    IF rows = << >> THEN << >>
    ELSE LET init == drop_duplicates_cpf(SubSeq(rows, 1, Len(rows) - 1), col)
             last == rows[Len(rows)]
         IN  IF \E k \in 1..Len(init) :
                    /\ init[k].processo_numero_cnj = last.processo_numero_cnj
                    /\ cpf_clean(init[k][col]) = cpf_clean(last[col])
             THEN init ELSE Append(init, last)

\* main.py 988-999, 1022-1033: the rows with a CPF once for each case and
\* CPF, then the rows without CPF as they are
sheet_final(rows, col) ==
    LET com_cpf == SelectSeq(rows, LAMBDA x : Len(cpf_clean(x[col])) > 0)
        sem_cpf == SelectSeq(rows, LAMBDA x : Len(cpf_clean(x[col])) = 0)
    IN  drop_duplicates_cpf(com_cpf, col) \o sem_cpf

\* main.py 816-838: load the cases of the tribunal; 404 when there is none
export_query ==
    /\ epc = "ready"
    /\ epc' = IF db = << >> THEN "raised" ELSE "rows"
    /\ UNCHANGED << db, ek, df_list, req_final, adv_final,
                    pipeVars, tempVars, cnjVars, tipoVars, bootVars, chunkVars, coerceVars, dadosVars >>

\* main.py 841-951: the rows of the next case
export_rows ==
    /\ epc = "rows" /\ ek < Len(db)
    /\ df_list' = df_list \o ProcessoRows(db[ek + 1])
    /\ ek' = ek + 1
    /\ UNCHANGED << db, req_final, adv_final, epc,
                    pipeVars, tempVars, cnjVars, tipoVars, bootVars, chunkVars, coerceVars, dadosVars >>

\* main.py 953-1076: the two sheets
export_sheets ==
    /\ epc = "rows" /\ ek = Len(db)
    /\ req_final' = sheet_final(df_list, "envolvido_cpf")
    /\ adv_final' = sheet_final(df_list, "advogado_cpf")
    /\ epc' = "done"
    /\ UNCHANGED << db, ek, df_list, pipeVars, tempVars, cnjVars, tipoVars, bootVars, chunkVars, coerceVars, dadosVars >>

InitExport ==
    /\ InitWith({[r \in Runs |-> <<>>]}, {{}}, {1}, {{"http_5xx"}})
    /\ NoChunks /\ NoCoerce /\ NoDados /\ Started /\ NoTipo /\ NoCnj /\ NoTemp
    /\ db \in Databases
    /\ ek = 0 /\ df_list = << >> /\ req_final = << >> /\ adv_final = << >>
    /\ epc = "ready"

NextExport == export_query \/ export_rows \/ export_sheets

SpecExport == InitExport /\ [][NextExport]_vars

(* ------------------------- start of the process ------------------------ *)
\* consultas.py 9: the base URL is a literal of the module
ESCAVADOR_API_BASE == << "https://api.escavador.com/api/v2/processos/numero_cnj" >>

\* headers that are built from the environment at every call
headers_getenv == [Authorization |-> << "Bearer", environ >>]

\* consultas.py 17-21: the headers of a request are built from the global
headers == [Authorization |-> << "Bearer", ESCAVADOR_API_KEY >>]

\* consultas.py 22: the URL of a request
url(numero) == Append(ESCAVADOR_API_BASE, numero)

\* what os.getenv finds after load_dotenv(): nothing, the empty text, a key
EnvValues == {None, Str(<< >>), Str(<< "k", "1" >>), Str(<< "k", "2" >>)}

\* consultas.py 7-12, run when main.py 7 imports worker.py and worker.py 18
\* imports consultas.py: the key is read; without a key the import raises
\* RuntimeError and the application is not loaded
import_consultas ==
    /\ proc = "starting"
    /\ ESCAVADOR_API_KEY' = environ
    /\ proc' = IF ~IsTruthy(environ) THEN "failed" ELSE "up"
    /\ UNCHANGED << environ, pipeVars, tempVars, cnjVars, tipoVars, chunkVars, coerceVars, dadosVars, exportVars >>

\* the environment or the .env file is changed after the start
setenv ==
    /\ proc # "starting"
    /\ \E v \in EnvValues : v # environ /\ environ' = v
    /\ UNCHANGED << ESCAVADOR_API_KEY, proc, pipeVars, tempVars, cnjVars, tipoVars, chunkVars, coerceVars,
                    dadosVars, exportVars >>

\* a process about to start, in any environment
InitBoot ==
    /\ InitWith(OneFile(MaxLenShort), Seeds, {1}, {{"http_5xx"}})
    /\ NoChunks /\ NoCoerce /\ NoDados /\ NoExport /\ NoTipo /\ NoCnj /\ NoTemp
    /\ environ \in EnvValues
    /\ ESCAVADOR_API_KEY = None
    /\ proc = "starting"

\* the endpoints and the worker exist in a process whose imports succeeded
NextBoot ==
    \/ import_consultas
    \/ setenv
    \/ proc = "up" /\ Next

SpecBoot == InitBoot /\ [][NextBoot]_vars

(* --------------------- the two lists of precatorios -------------------- *)
\* str.lower() on the letters of the names below
Uppers == << "E", "M", "U", "N", "I", "C", "Í", "P", "O", "S", "T", "R", "F", "J" >>
Lowers == << "e", "m", "u", "n", "i", "c", "í", "p", "o", "s", "t", "r", "f", "j" >>
lower(str) ==
    [k \in 1..Len(str) |->
        IF \E u \in 1..Len(Uppers) : Uppers[u] = str[k]
        THEN Lowers[CHOOSE u \in 1..Len(Uppers) : Uppers[u] = str[k]]
        ELSE str[k]]
\* sub in str
Contains(str, sub) ==
    \E k \in 0..(Len(str) - Len(sub)) : SubSeq(str, k + 1, k + Len(sub)) = sub
\* str.startswith(prefix)
startswith(str, prefix) ==
    Len(str) >= Len(prefix) /\ SubSeq(str, 1, Len(prefix)) = prefix

\* names of a defendant: a state, a town with and without the accent, an
\* agency, no name
ReuNomes ==
    {None,
     Str(<< "E", "s", "t", "a", "d", "o" >>),
     Str(<< "M", "U", "N", "I", "C", "Í", "P", "I", "O" >>),
     Str(<< "M", "u", "n", "i", "c", "i", "p", "i", "o", " ", "d", "e" >>),
     Str(<< "I", "N", "S", "S" >>)}
\* parties of a stored case
Partes ==
    {[polo |-> "PASSIVO", tipo_normalizado |-> "Reu", nome |-> n] : n \in ReuNomes}
    \cup {[polo |-> "ATIVO", tipo_normalizado |-> t, nome |-> Str(<< "S" >>)] :
            t \in {"Advogado", "Autor"}}
\* the tribunals a list is asked for
Siglas == {<< "T", "R", "F", "1" >>, << "T", "J", "S", "P" >>}

\* (e for f in p.fontes for e in f.envolvidos)
Todos(p) == Flatten([f \in 1..Len(p.fontes) |-> p.fontes[f].envolvidos])
\* next((e for ... if cond), None): the position of the first one, 0 for None
First(es, cond(_)) ==
    IF \E k \in 1..Len(es) : cond(es[k])
    THEN CHOOSE k \in 1..Len(es) : cond(es[k]) /\ \A k0 \in 1..(k - 1) : ~cond(es[k0])
    ELSE 0
\* main.py 314, 654
Reu(p) == First(Todos(p), LAMBDA e : e.polo = "PASSIVO")
\* main.py 315, 655
Credor(p) ==
    First(Todos(p), LAMBDA e : e.polo = "ATIVO" /\ ~(e.tipo_normalizado = "Advogado"))
\* reu and reu.nome and word in reu.nome.lower()
ReuNomeHas(p, word) ==
    /\ Reu(p) # 0
    /\ IsTruthy(Todos(p)[Reu(p)].nome)
    /\ Contains(lower(Todos(p)[Reu(p)].nome.s), word)

Estado == << "e", "s", "t", "a", "d", "o" >>
Municipio == << "m", "u", "n", "i", "c", "í", "p", "i", "o" >>
MunicipioDe == << "m", "u", "n", "i", "c", "i", "p", "i", "o", " ", "d", "e" >>

\* main.py 317-324
tipo_precatorio_zip(p) ==
    IF p.sigla # << >> /\ startswith(p.sigla, << "T", "R", "F" >>) THEN "Federal"
    ELSE IF ReuNomeHas(p, Estado) THEN "Estadual"
    ELSE IF ReuNomeHas(p, Municipio) \/ ReuNomeHas(p, MunicipioDe) THEN "Municipal"
    ELSE "None"
\* main.py 658-665
tipo_precatorio_csv(p) ==
    IF p.sigla # << >> /\ startswith(p.sigla, << "T", "R", "F" >>) THEN "Federal"
    ELSE IF ReuNomeHas(p, Estado) THEN "Estadual"
    ELSE IF ReuNomeHas(p, Municipio) THEN "Municipal"
    ELSE "None"

\* main.py 310-324: the row download_precatorios_zip builds for the case
download_precatorios_zip ==
    /\ zip_row.k = "unset" /\ processo.sigla # << >>
    /\ zip_row' = [k |-> "row", tipo_precatorio |-> tipo_precatorio_zip(processo),
                   credor |-> Credor(processo), reu |-> Reu(processo)]
    /\ UNCHANGED << processo, csv_row, pipeVars, tempVars, cnjVars, bootVars, chunkVars, coerceVars,
                    dadosVars, exportVars >>

\* main.py 643-664: the row download_precatorios_csv builds for the case
download_precatorios_csv ==
    /\ csv_row.k = "unset" /\ processo.sigla # << >>
    /\ csv_row' = [k |-> "row", tipo_precatorio |-> tipo_precatorio_csv(processo),
                   credor |-> Credor(processo), reu |-> Reu(processo)]
    /\ UNCHANGED << processo, zip_row, pipeVars, tempVars, cnjVars, bootVars, chunkVars, coerceVars,
                    dadosVars, exportVars >>

\* a stored case of the tribunal, with any parties in one source or two
InitTipo ==
    /\ InitWith({[r \in Runs |-> <<>>]}, {{}}, {1}, {{"http_5xx"}})
    /\ NoChunks /\ NoCoerce /\ NoDados /\ NoExport /\ Started /\ NoCnj /\ NoTemp
    /\ processo \in
          {[sigla |-> sg, fontes |-> fs] :
              sg \in Siglas,
              fs \in {<< >>}
                     \cup {<< [envolvidos |-> es] >> : es \in SeqsUpTo(Partes, MaxEnvolvidos)}
                     \cup {<< [envolvidos |-> << >>], [envolvidos |-> es] >> :
                              es \in SeqsUpTo(Partes, 1)}}
    /\ zip_row = [k |-> "unset"] /\ csv_row = [k |-> "unset"]

NextTipo == download_precatorios_zip \/ download_precatorios_csv

SpecTipo == InitTipo /\ [][NextTipo]_vars

(* --------------------------- formatar_cnj ------------------------------ *)
\* a formatting that cuts the year one digit short
formatar_cnj_str_short(v) ==
    IF v.k # "str" \/ ~isdigit(v.s) \/ Len(v.s) # 20 THEN v
    ELSE Str(SubSeq(v.s, 1, 7) \o << "-" >> \o SubSeq(v.s, 8, 9) \o << "." >>
             \o SubSeq(v.s, 10, 12) \o << "." >> \o << v.s[14] >> \o << "." >>
             \o SubSeq(v.s, 15, 16) \o << "." >> \o SubSeq(v.s, 17, 20))

\* main.py 49-56 on texts and None:
\* f"{numero[:7]}-{numero[7:9]}.{numero[9:13]}.{numero[13]}.{numero[14:16]}.{numero[16:]}"
formatar_cnj_str(v) ==
    IF ~IsTruthy(v) \/ ~isdigit(v.s) \/ Len(v.s) # 20 THEN v
    ELSE Str(SubSeq(v.s, 1, 7) \o << "-" >> \o SubSeq(v.s, 8, 9) \o << "." >>
             \o SubSeq(v.s, 10, 13) \o << "." >> \o << v.s[14] >> \o << "." >>
             \o SubSeq(v.s, 15, 16) \o << "." >> \o SubSeq(v.s, 17, 20))

\* a text of len digits that starts at digit d and goes up by step
DigitText(len, d, step) == [k \in 1..len |-> DecimalDigits[((d + (k - 1) * step) % 10) + 1]]
\* the texts of the cells of an uploaded sheet: the 20 digits of case n, and
\* the formatted form of case n
CellText(c) ==
    IF IsUnformatted(c) THEN Str(DigitText(20, c - 10, 1))
    ELSE formatar_cnj_str(Str(DigitText(20, c, 1)))
\* the values formatar_cnj is given: None, the missing value, the empty
\* text, digit texts of 19 to 21 characters, 20 character texts with a
\* letter, and formatted numbers
CnjInputs ==
    LET twenty == {DigitText(20, d, st) : d \in 0..MaxDigit, st \in {1, 3}}
    IN  {None, NaN, Str(<< >>)}
        \cup {Str(DigitText(len, d, st)) : len \in 19..21, d \in 0..MaxDigit, st \in {1, 3}}
        \cup {Str([t EXCEPT ![q] = "x"]) : t \in twenty, q \in {1, 8, 20}}
        \cup {formatar_cnj_str(Str(t)) : t \in twenty}

\* main.py 104: formatar_cnj is applied to a value of the column; the
\* missing value raises AttributeError at numero.isdigit()
cnj_format ==
    /\ fpc = "ready"
    /\ IF cnj_in = NaN
       THEN fpc' = "raised" /\ UNCHANGED cnj_out
       ELSE cnj_out' = formatar_cnj_str(cnj_in) /\ fpc' = "once"
    /\ UNCHANGED << cnj_in, cnj_again, pipeVars, tempVars, bootVars, tipoVars, chunkVars,
                    coerceVars, dadosVars, exportVars >>

\* formatar_cnj applied to its own result (a sheet that is exported and
\* uploaded again)
cnj_format_again ==
    /\ fpc = "once"
    /\ cnj_again' = formatar_cnj_str(cnj_out)
    /\ fpc' = "twice"
    /\ UNCHANGED << cnj_in, cnj_out, pipeVars, tempVars, bootVars, tipoVars, chunkVars,
                    coerceVars, dadosVars, exportVars >>

InitCnj ==
    /\ InitWith({[r \in Runs |-> <<>>]}, {{}}, {1}, {{"http_5xx"}})
    /\ NoChunks /\ NoCoerce /\ NoDados /\ NoExport /\ Started /\ NoTipo /\ NoTemp
    /\ cnj_in \in CnjInputs
    /\ cnj_out = None /\ cnj_again = None /\ fpc = "ready"

NextCnj == cnj_format \/ cnj_format_again

SpecCnj == InitCnj /\ [][NextCnj]_vars

(* ------------------- the temporary file of upload_file ----------------- *)
\* the bytes of an upload, each marked with the request that sent it
Body(r, len) == [k \in 1..len |-> r]
\* file.write at offset 0 of an open file: the bytes replace what is there
\* from the start, what lies behind them stays
Overwrite(old, new) ==
    new \o (IF Len(old) > Len(new) THEN SubSeq(old, Len(new) + 1, Len(old)) ELSE <<>>)
\* a path made of the request as well as the file name
file_path_unique(r, name) == << r, name >>
\* main.py 67: file_path = os.path.join(UPLOAD_DIR, file.filename)
file_path(r, name) == name
\* the path request r works on
PathOf(r) == file_path(r, filename[r])
\* the paths the requests can work on
Paths == {file_path(r, filename[r]) : r \in Runs}
\* no request is between its write and its read, which the event loop runs
\* without a pause (main.py 69-92 has no await after file.read())
LoopFree(r) == \A r0 \in Runs \ {r} : tpc[r0] # "written"

\* main.py 68: open(file_path, "wb") creates the file or empties the one that
\* is there; `await file.read()` of line 69 then lets other requests run
temp_open(r) ==
    /\ tpc[r] = "start" /\ LoopFree(r)
    /\ LET path == PathOf(r)
           ino == IF uploads[path] = 0 THEN Len(inodes) + 1 ELSE uploads[path]
       IN  /\ uploads' = [uploads EXCEPT ![path] = ino]
           /\ inodes' = IF uploads[path] = 0 THEN Append(inodes, <<>>)
                        ELSE [inodes EXCEPT ![ino] = <<>>]
           /\ fd' = [fd EXCEPT ![r] = ino]
    /\ tpc' = [tpc EXCEPT ![r] = "opened"]
    /\ UNCHANGED << filename, content, rawdata, pipeVars, cnjVars, tipoVars, bootVars,
                    chunkVars, coerceVars, dadosVars, exportVars >>

\* main.py 69: f.write(...) and the end of the with block
temp_write(r) ==
    /\ tpc[r] = "opened" /\ LoopFree(r)
    /\ inodes' = [inodes EXCEPT ![fd[r]] = Overwrite(@, content[r])]
    /\ fd' = [fd EXCEPT ![r] = 0]
    /\ tpc' = [tpc EXCEPT ![r] = "written"]
    /\ UNCHANGED << filename, content, uploads, rawdata, pipeVars, cnjVars, tipoVars,
                    bootVars, chunkVars, coerceVars, dadosVars, exportVars >>

\* main.py 76-96: the file is opened again and read; a path that is gone
\* raises FileNotFoundError and the request ends with status 500, its
\* background task never runs
temp_read(r) ==
    /\ tpc[r] = "written"
    /\ IF uploads[PathOf(r)] = 0
       THEN /\ tpc' = [tpc EXCEPT ![r] = "raised"]
            /\ UNCHANGED rawdata
       ELSE /\ rawdata' = [rawdata EXCEPT ![r] = inodes[uploads[PathOf(r)]]]
            /\ tpc' = [tpc EXCEPT ![r] = "parsed"]
    /\ UNCHANGED << filename, content, uploads, inodes, fd, pipeVars, cnjVars, tipoVars,
                    bootVars, chunkVars, coerceVars, dadosVars, exportVars >>

\* main.py 98-144: the rest of the request, up to its response
temp_respond(r) ==
    /\ tpc[r] = "parsed"
    /\ tpc' = [tpc EXCEPT ![r] = "responded"]
    /\ UNCHANGED << filename, content, uploads, inodes, fd, rawdata, pipeVars, cnjVars,
                    tipoVars, bootVars, chunkVars, coerceVars, dadosVars, exportVars >>

\* main.py 73 and 609-610: after the response the background task runs
\* delete_file in a worker thread: os.remove(file_path), which raises
\* FileNotFoundError when the path is gone
delete_file(r) ==
    /\ tpc[r] = "responded"
    /\ IF uploads[PathOf(r)] = 0
       THEN /\ tpc' = [tpc EXCEPT ![r] = "delete_raised"]
            /\ UNCHANGED uploads
       ELSE /\ uploads' = [uploads EXCEPT ![PathOf(r)] = 0]
            /\ tpc' = [tpc EXCEPT ![r] = "deleted"]
    /\ UNCHANGED << filename, content, inodes, fd, rawdata, pipeVars, cnjVars, tipoVars,
                    bootVars, chunkVars, coerceVars, dadosVars, exportVars >>

\* the names the clients give their files
FileNames == {"a.csv", "b.csv"}

InitTemp ==
    /\ InitWith({[r \in Runs |-> <<>>]}, {{}}, {1}, {{"http_5xx"}})
    /\ NoChunks /\ NoCoerce /\ NoDados /\ NoExport /\ Started /\ NoTipo /\ NoCnj
    /\ filename \in [Runs -> FileNames]
    /\ content \in {[r \in Runs |-> Body(r, len[r])] : len \in [Runs -> 1..MaxCells]}
    /\ uploads = [path \in Paths |-> 0]
    /\ inodes = <<>>
    /\ fd = [r \in Runs |-> 0]
    /\ rawdata = [r \in Runs |-> <<>>]
    /\ tpc = [r \in Runs |-> "start"]

NextTemp ==
    \E r \in Runs :
        \/ temp_open(r)
        \/ temp_write(r)
        \/ temp_read(r)
        \/ temp_respond(r)
        \/ delete_file(r)

SpecTemp == InitTemp /\ [][NextTemp]_vars

(* ======================= properties of the pipeline ==================== *)
\* the chunk of list position p: the caller's slice, then the chunk inside it
ChunkId(r, p) ==
    << (p - 1) \div CallerSlice(r), ((p - 1) % CallerSlice(r)) \div BATCH_SIZE >>
Before(a, b) == a[1] < b[1] \/ (a[1] = b[1] /\ a[2] < b[2])

\* the record salvar_processo is working on
Cur(r) == resultados[r][j[r]]
\* salvar_processo has been called for position p
SaveBegun(r, p) ==
    \/ out[r][p] \in {"committed", "noop", "save_logged", "escaped"}
    \/ (pc[r] = "persist" /\ sp[r] # "none" /\ Pos(r, j[r]) = p)
\* the fetch of position p has started / has ended
FetchBegun(r, p) == task[r][p].st # "new"
FetchEnded(r, p) == Ended(task[r][p]) \/ Collected(task[r][p])
\* committed rows inserted by the salvar_processo call of position p
RowsBy(r, p) == {x \in store : x.by = <<r, p>>}
\* records whose construction raises nowhere
GoodRecords(n) == {d \in Records(n) : ~Raises(ChildSteps(d))}

\* the full trees the salvar_processo call `by` can leave for number n
GoodTrees ==
    [n \in Nums |-> [by \in Runs \X (1..MaxLen) |->
        {FullTree(d, by) : d \in GoodRecords(n)}]]

\* C1: every fetch of a chunk has ended before the first salvar_processo call
\* of that chunk, every entry of a chunk has been dealt with (its
\* salvar_processo call has returned) before the first fetch of a later chunk
\* starts, and fetches start in input order.
C1_ChunkOrder ==
    \A r \in Runs :
        LET chunk == [p \in DOMAIN task[r] |-> ChunkId(r, p)]
            begun == {p \in DOMAIN task[r] : FetchBegun(r, p)}
            saving == {p \in DOMAIN task[r] : SaveBegun(r, p)}
        IN  /\ \A q \in saving : \A p \in DOMAIN task[r] :
                  chunk[p] = chunk[q] => FetchEnded(r, p)
            /\ \A q \in begun : \A p \in DOMAIN task[r] :
                  /\ Before(chunk[p], chunk[q])
                        => (out[r][p] # "none" /\ ~(sp[r] # "none" /\ Pos(r, j[r]) = p))
                  /\ p < q => p \in begun

\* a second chunk is being fetched after a record of the first was committed
C1_Witness ==
    /\ via[1] = "processar_csv"
    /\ \E p \in DOMAIN task[1] : \E q \in DOMAIN task[1] :
          /\ Before(ChunkId(1, p), ChunkId(1, q))
          /\ out[1][p] = "committed" /\ task[1][q].st = "run"

\* C2: whatever value salvar_processo raises on, only that record is rolled
\* back, the other records of the chunk are committed and no exception
\* leaves the chunk loop of processar_lote.
C2_NoEscape ==
    \A r \in Runs :
        /\ pc[r] # "raised"
        /\ pc[r] = "done" =>
              \A p \in DOMAIN task[r] :
                  task[r][p].val.t = "dict" => out[r][p] \in {"committed", "noop", "save_logged"}

\* C3: when a call of the chunk failed or needed a retry, gather still ends
\* only once every call has ended, collects each result as a value or as a
\* captured failure, and every call that returned a record has been passed to
\* salvar_processo when the run is over.
C3_SiblingsUnaffected ==
    \A r \in Runs :
        /\ pc[r] = "persist" =>
              /\ \A p \in ChunkPos(r) : Collected(task[r][p])
              /\ Len(resultados[r]) = Cardinality(ChunkPos(r))
              /\ \A k \in 1..Len(resultados[r]) :
                    IsException(resultados[r][k]) <=> task[r][Pos(r, k)].st = "failure"
        /\ (pc[r] \in {"done", "raised"} /\ max_att[r] > 1) =>
              \A p \in DOMAIN task[r] :
                  (task[r][p].st = "value" /\ task[r][p].val.t = "dict")
                      => out[r][p] \in {"committed", "noop", "save_logged"}

\* C4: the rows a salvar_processo call leaves in the store are the full tree
\* of a record or nothing; a record whose construction raised leaves nothing,
\* a committed record keeps its tree, and the seeded tree stays as it was.
C4_AllOrNothing ==
    /\ {x \in store : x.by = Seed} \in {{}, SeedRows({1})}
    /\ \A r \in Runs : \A p \in DOMAIN out[r] :
          LET rows == RowsBy(r, p)
          IN  /\ \/ rows = {}
                 \/ rows \in GoodTrees[numeros_para[r][p]][<<r, p>>]
              /\ out[r][p] \in {"save_logged", "escaped", "noop", "fetch_logged", "dropped"}
                    => rows = {}
              /\ out[r][p] = "committed" => rows # {}

\* a record raised after its Processo and a child were added, was rolled back,
\* and the next record of the chunk was committed on the same session
C4_Witness ==
    /\ pc[1] = "persist" /\ Len(resultados[1]) = 2
    /\ resultados[1][1] \in {BadChildRecord(n) : n \in Nums}
    /\ out[1][Pos(1, 1)] = "save_logged"
    /\ out[1][Pos(1, 2)] = "committed"

\* C5: a salvar_processo call on a record whose numero_cnj is stored changes
\* nothing: no row is staged or committed, nothing is raised, and the call
\* ends as a no-op.
C5_Idempotent ==
    [][\A r \in Runs :
          (pc[r] = "persist" /\ sp[r] # "none" /\ Cur(r).t = "dict"
              /\ Cur(r).numero_cnj \in Stored(store))
          => /\ store' = store
             /\ pending'[r] = {}
             /\ sp'[r] # "except"
             /\ (sp'[r] = "none" => out'[r][Pos(r, j[r])] = "noop")]_vars

\* a record without children is about to end as a no-op on a number stored
\* with a full tree
C5_Witness ==
    /\ pc[1] = "persist" /\ sp[1] = "commit"
    /\ Cur(1) = BareRecord(1)
    /\ SeedRows({1}) \subseteq store

\* C6: the store holds at most one Processo per numero_cnj, and every row of
\* that number was inserted by the one salvar_processo call that inserted the
\* Processo, as the full tree of its record.
C6_AtMostOnce ==
    \A n \in Nums :
        LET ps == {x \in store : x.kind = "Processo" /\ x.cnj = n}
            rows == {x \in store : x.cnj = n}
        IN  /\ Cardinality(ps) <= 1
            /\ \A x \in rows : \A y \in ps : x.by = y.by
            /\ rows # {} => \E d \in GoodRecords(n) : \E x \in rows : rows = FullTree(d, x.by)

\* both requests reached salvar_processo with a sound record of number 1: one
\* committed it, the INSERT of the other failed on the unique constraint
C6_Witness ==
    \E r1 \in Runs : \E r2 \in Runs \ {r1} :
        /\ \E p \in DOMAIN out[r1] : out[r1][p] = "committed" /\ numeros_para[r1][p] = 1
        /\ pc[r2] = "persist" /\ Len(resultados[r2]) >= 1
        /\ resultados[r2][1] \in GoodRecords(1)
        /\ out[r2][Pos(r2, 1)] = "save_logged"

\* the tree of number 1 seeded before the request
Seeded(n) == ProcessoRow(n, Seed) \in store

\* C7 (as claimed): no fetch is issued for a list position whose number had a
\* stored Processo when processar_lote was called with it.
C7_NoFetchForStored ==
    \A r \in Runs : \A p \in stored_at_call[r] : ~FetchBegun(r, p)

\* C7 (amended): upload_file hands processar_lote no number that was stored
\* before the request, so none is fetched; a stored number that does reach
\* processar_lote is fetched, and nothing is written for it.
C7_FilteredUpstream ==
    \A r \in Runs :
        /\ via[r] = "upload_file" =>
              \A p \in DOMAIN task[r] : ~Seeded(numeros_para[r][p])
        /\ \A p \in stored_at_call[r] :
              /\ RowsBy(r, p) = {}
              /\ \A x \in pending[r] : x.by # <<r, p>>

\* an upload whose file named the stored number 1 and a new number has run
C7_Witness ==
    /\ via[1] = "upload_file" /\ pc[1] = "done"
    /\ Seeded(1) /\ 1 \in SeqRange(inbox[1])
    /\ numeros_para[1] = <<2>> /\ out[1][1] = "committed"

\* C8: a list of length N is cut into ceil(N/B) consecutive chunks of at most
\* B entries, the last of N mod B entries (B when B divides N); the chunks
\* concatenated give the list back; the empty list gives no chunk.
C8_Chunks ==
    LET N == Len(clst)
        B == cn
    IN  /\ \A k \in 1..Len(cout) : Len(cout[k]) <= B /\ Len(cout[k]) >= 1
        /\ Flatten(cout) = SubSeq(clst, 1, Len(Flatten(cout)))
        /\ ci >= N =>
              /\ Len(cout) = (N + B - 1) \div B
              /\ Flatten(cout) = clst
              /\ \A k \in 1..(Len(cout) - 1) : Len(cout[k]) = B
              /\ N > 0 => Len(cout[Len(cout)]) = (IF N % B = 0 THEN B ELSE N % B)
              /\ N = 0 => cout = <<>>

\* three numbers cut by 2: two chunks, the last of one entry
C8_Witness ==
    /\ Len(clst) = 3 /\ cn = 2 /\ ci >= Len(clst)
    /\ Len(cout) = 2 /\ Len(cout[2]) = 1

\* C9: a call makes at most 3 attempts; each failed attempt, of whatever kind,
\* is followed by one wait and another attempt; the call returns the JSON of
\* its first successful attempt and fails, with RetryError, only when the
\* third attempt fails.
C9_Retry ==
    [][\A r \in Runs : \A p \in (DOMAIN task[r]) \cap (DOMAIN task'[r]) :
          LET t == task[r][p]
              u == task'[r][p]
          IN  /\ t.att <= 3 /\ u.att <= 3
              /\ (t.st = "run" /\ u.st = "exc") => (t.att = 3 /\ u.val.cls = "RetryError")
              /\ (t.st = "run" /\ u.st = "ok") => u.val \in Responses(numeros_para[r][p])
              /\ (t.st = "run" /\ u.st = "run" /\ u # t)
                    => (u.att = t.att + 1 /\ Len(u.waits) = Len(t.waits) + 1
                        /\ Len(u.waits) = u.att - 1)]_vars

\* the only call of a chunk failed twice and its third attempt returned a
\* record, which gather handed over
C9_Witness ==
    /\ pc[1] = "persist" /\ Len(resultados[1]) = 1
    /\ max_att[1] = 3
    /\ resultados[1][1] \in Records(numeros_para[1][Pos(1, 1)])

\* C10 (as claimed): the wait after the k-th failed attempt is 2 doubled k-1
\* times, capped at 10: 2 after the first failure, 4 after the second.
C10_Doubling ==
    \A r \in Runs : \A p \in DOMAIN task[r] :
        \A k \in DOMAIN task[r][p].waits :
            task[r][p].waits[k] = Min2(2 * Pow2(k - 1), 10)

\* C10 (amended): every wait lies between 2 and 10, the waits never decrease,
\* the first is 2 and the second is 2 with current tenacity (exponent
\* attempt_number - 1) and 4 with the releases whose exponent is attempt_number.
C10_Backoff ==
    \A r \in Runs : \A p \in DOMAIN task[r] :
        LET w == task[r][p].waits
        IN  /\ Len(w) <= 2
            /\ \A k \in DOMAIN w : w[k] >= 2 /\ w[k] <= 10
            /\ \A k \in DOMAIN w : k > 1 => w[k - 1] <= w[k]
            /\ Len(w) >= 1 => w[1] = 2
            /\ Len(w) >= 2 => w[2] = (IF origin = 1 THEN 2 ELSE 4)

\* a call of current tenacity has waited twice
C10_Witness ==
    /\ origin = 1
    /\ \E p \in DOMAIN task[1] : Len(task[1][p].waits) = 2 /\ task[1][p].st = "run"

\* what a failure value carries: its own arguments and, for a RetryError,
\* those of the exception of the last attempt it holds
Carried(v) ==
    v.tags \cup (IF v.cls = "RetryError" THEN v.last_attempt.tags ELSE {})

\* C11: every failure value gather hands to processar_lote carries the case
\* number of its entry and the status of the failed request, whatever the
\* kind of the failure.
C11_TaggedFailure ==
    \A r \in Runs : \A k \in 1..Len(resultados[r]) :
        IsException(resultados[r][k]) =>
            /\ <<"numero", numeros_para[r][Pos(r, k)]>> \in Carried(resultados[r][k])
            /\ \E x \in Carried(resultados[r][k]) : x[1] = "status"

\* C12: an entry's consultar_numero call is started once and never again,
\* makes at most 3 attempts, and an entry whose call failed terminally has no
\* row staged or committed by its position and is logged as a fetch failure
\* by the time the run is over.
C12_OneCallLoggedSkipped ==
    [][\A r \in Runs : \A p \in (DOMAIN task[r]) \cap (DOMAIN task'[r]) :
          LET t == task[r][p]
              u == task'[r][p]
          IN  /\ u.att <= MAX_ATTEMPTS
              /\ t.st # "new" => u.st # "new"
              /\ t.st \notin {"new", "run"} => u.st # "run"
              /\ u.st \in {"exc", "failure"} =>
                    /\ \A x \in store' \cup pending'[r] : x.by # <<r, p>>
                    /\ out'[r][p] \in {"none", "fetch_logged"}
                    /\ pc'[r] \in {"done", "raised"} => out'[r][p] = "fetch_logged"]_vars

\* how an entry whose fetch or persistence failed ended
FailedOuts == {"fetch_logged", "save_logged", "escaped"}

C16_AlwaysSuccess ==
    \A r \in Runs :
        (via[r] = "upload_file" /\ numeros_para[r] # <<>> /\ RunOver(r)) =>
            /\ upload_response(r).status = 200
            /\ upload_response(r).detail = "Arquivo processado com sucesso"
            /\ upload_response(r).total_novos = Len(numeros_para[r])

\* the case number a cell names
CaseOf(c) == c % 10
\* the position of the first cell of a sheet that names case n
FirstRow(sheet, n) ==
    CHOOSE k \in 1..Len(sheet) :
        /\ CaseOf(sheet[k]) = n
        /\ \A k0 \in 1..(k - 1) : CaseOf(sheet[k0]) # n
\* C17: the list upload_file works on has each number once after
\* normalisation, holds no number that was stored when the file was
\* filtered, keeps the order of first occurrence in the file, leaves out
\* the rows without a number and does not abort because of them, and when
\* the list is empty processar_lote is not called at all
C17_WorkList ==
    [][\A r \in Runs :
          (via[r] = "none" /\ via'[r] = "upload_file") =>
              LET lst == numeros_para'[r]
                  named == {CaseOf(inbox[r][k]) : k \in 1..Len(inbox[r])} \ {Missing}
              IN  /\ pc'[r] # "raised"
                  /\ SeqRange(lst) = named \ Stored(store)
                  /\ \A a, b \in 1..Len(lst) : a # b => lst[a] # lst[b]
                  /\ \A a, b \in 1..Len(lst) :
                        a < b => FirstRow(inbox[r], lst[a]) < FirstRow(inbox[r], lst[b])
                  /\ (lst = <<>> => pc'[r] = "done")]_vars
\* the same statement for the sheets that have a number in every row
C17_WorkListNoMissing ==
    [][\A r \in Runs :
          (via[r] = "none" /\ via'[r] = "upload_file"
           /\ \A k \in 1..Len(inbox[r]) : inbox[r][k] # Missing) =>
              LET lst == numeros_para'[r]
                  named == {CaseOf(inbox[r][k]) : k \in 1..Len(inbox[r])}
              IN  /\ pc'[r] # "raised"
                  /\ SeqRange(lst) = named \ Stored(store)
                  /\ \A a, b \in 1..Len(lst) : a # b => lst[a] # lst[b]
                  /\ \A a, b \in 1..Len(lst) :
                        a < b => FirstRow(inbox[r], lst[a]) < FirstRow(inbox[r], lst[b])
                  /\ (lst = <<>> => pc'[r] = "done")]_vars

\* C21: when a run of processar_lote is over, every entry of its list has
\* ended in one of three ways: its record was committed or found stored, its
\* fetch failure was logged, or its persistence failure was logged with its
\* number; no entry was passed over without a log line.
C21_EveryEntryAccounted ==
    \A r \in Runs :
        RunOver(r) =>
            \A p \in DOMAIN out[r] :
                out[r][p] \in {"committed", "noop", "fetch_logged", "save_logged"}

\* C22: a chunk has one client session, open as long as a fetch of the chunk
\* is in flight and closed when the fetch phase ends; then it has one new
\* database session, which only the salvar_processo calls of the chunk use,
\* which is never open while a fetch is in flight and which is closed before
\* the next chunk starts; no session is the session of an earlier chunk.
C22_SessionPerChunk ==
    [][\A r \in Runs :
          /\ (\E p \in DOMAIN task'[r] : task'[r][p].st = "run") =>
                session'[r].open /\ ~db_session'[r].open
          /\ (pc[r] = "gather" /\ pc'[r] = "gather") => session'[r] = session[r]
          /\ (sp'[r] # "none" \/ pending'[r] # {}) =>
                db_session'[r].open /\ ~session'[r].open
          /\ (pc[r] = "persist" /\ pc'[r] = "persist") => db_session'[r] = db_session[r]
          /\ pc'[r] # "gather" => ~session'[r].open
          /\ pc'[r] # "persist" => ~db_session'[r].open
          /\ (session'[r].open /\ session'[r] # session[r]) =>
                session'[r].id > sessions[r]
          /\ (db_session'[r].open /\ db_session'[r] # db_session[r]) =>
                db_session'[r].id > sessions[r]]_vars
\* the second chunk of a run is being stored through its own database session
C22_Witness ==
    /\ pc[1] = "persist" /\ sp[1] = "children"
    /\ db_session[1].open /\ db_session[1].id = 4 /\ session[1].id = 3

\* the calls of consultar_numero that have started and not ended
InFlight(r) == {p \in DOMAIN task[r] : task[r][p].st = "run"}
\* the results that are fetched and not yet passed by the persistence loop
Unpersisted(r) ==
    {p \in DOMAIN task[r] : Ended(task[r][p])}
    \cup (IF pc[r] = "persist"
          THEN {Pos(r, k) : k \in (j[r] + (IF sp[r] = "none" THEN 0 ELSE 1))..Len(resultados[r])}
          ELSE {})
\* C23: at every moment of a run at most BATCH_SIZE calls of consultar_numero
\* are in flight, all of them for numbers of the current chunk, and at most
\* BATCH_SIZE fetched results wait for the persistence loop.
C23_BoundedFanOut ==
    \A r \in Runs :
        /\ Cardinality(InFlight(r)) <= BATCH_SIZE
        /\ InFlight(r) # {} => pc[r] = "gather" /\ InFlight(r) \subseteq ChunkPos(r)
        /\ Cardinality(Unpersisted(r)) <= BATCH_SIZE
\* a full chunk is in flight and a number of a later chunk has not been
\* started
C23_Witness ==
    /\ Cardinality(InFlight(1)) = BATCH_SIZE
    /\ \E p \in DOMAIN task[1] : task[1][p].st = "new"
    /\ Len(numeros_para[1]) > BATCH_SIZE

\* every entry of the list of run r has been fetched and handed over by gather
AllFetched(r) == \A p \in DOMAIN task[r] : Collected(task[r][p])
\* C24: when every attempt ends and every database call returns, a run that
\* was started finishes: every chunk gets through its persistence phase and
\* every entry of the list has been fetched.
C24_Finishes ==
    \A r \in Runs : (via[r] # "none") ~> (pc[r] = "done" /\ AllFetched(r))
\* a run that was started comes to an end, by returning or by an exception
C24_Ends ==
    \A r \in Runs : (via[r] # "none") ~> RunOver(r)

\* the rows a record asks for, collection by collection
Wanted(d, by) ==
    LET n == d.numero_cnj
        F == 1..Len(d.fontes)
    IN  {Row("ProcessoRelacionado", n, << k >>, by) : k \in 1..Len(d.processos_relacionados)}
        \cup {Row("Fonte", n, << fi >>, by) : fi \in F}
        \cup {Row("Capa", n, << fi >>, by) : fi \in {x \in F : d.fontes[x].capa # <<>>}}
        \cup {Row("ValorCausa", n, << fi >>, by) :
                fi \in {x \in F : d.fontes[x].capa # <<>> /\ d.fontes[x].capa[1].valor_causa}}
        \cup UNION {{Row("InformacaoComplementar", n, << fi, k >>, by) :
                        k \in 1..(IF d.fontes[fi].capa = <<>> THEN 0
                                  ELSE d.fontes[fi].capa[1].informacoes_complementares)} :
                    fi \in F}
        \cup UNION {{Row("Audiencia", n, << fi, k >>, by) : k \in 1..d.fontes[fi].audiencias} :
                    fi \in F}
        \cup UNION {{Row("Envolvido", n, << fi, e >>, by) : e \in 1..Len(d.fontes[fi].envolvidos)} :
                    fi \in F}
        \cup UNION {UNION {{Row("Advogado", n, << fi, e, a >>, by) :
                              a \in 1..Len(d.fontes[fi].envolvidos[e].advogados)} :
                           e \in 1..Len(d.fontes[fi].envolvidos)} : fi \in F}
        \cup UNION {UNION {UNION {{Row("OAB", n, << fi, e, a, o >>, by) :
                                     o \in 1..d.fontes[fi].envolvidos[e].advogados[a].oabs} :
                                  a \in 1..Len(d.fontes[fi].envolvidos[e].advogados)} :
                           e \in 1..Len(d.fontes[fi].envolvidos)} : fi \in F}
\* C25: a committed record has every row of every collection it holds: the
\* hearings, parties, attorneys and bar registrations of a source without
\* cover sheet, and each collection whatever other collection is absent.
C25_SiblingsInserted ==
    \A r \in Runs : \A p \in DOMAIN out[r] :
        (out[r][p] = "committed" /\ pc[r] = "persist") =>
            Wanted(resultados[r][p - start[r] - i[r]], << r, p >>) \subseteq store
\* a record is committed whose source has no cover sheet and has a hearing
\* and a party with an attorney and a bar registration
C25_Witness ==
    /\ pc[1] = "persist" /\ out[1] = << "committed" >>
    /\ \E fi \in 1..Len(resultados[1][1].fontes) :
          LET f == resultados[1][1].fontes[fi]
          IN  /\ f.capa = <<>> /\ f.audiencias = 1
              /\ f.envolvidos = << [advogados |-> << [oabs |-> 1] >>] >>
              /\ Row("OAB", 1, << fi, 1, 1, 1 >>, << 1, 1 >>) \in store

(* ================ properties of the lists of precatorios =============== *)
\* C26: for the same stored case download_precatorios_zip and
\* download_precatorios_csv give the same type of precatorio and pick the same
\* creditor and defendant.
C26_SameClassification ==
    (zip_row.k = "row" /\ csv_row.k = "row") =>
        /\ zip_row.tipo_precatorio = csv_row.tipo_precatorio
        /\ zip_row.credor = csv_row.credor
        /\ zip_row.reu = csv_row.reu
\* the two lists pick the same creditor and defendant
C26_SameParties ==
    (zip_row.k = "row" /\ csv_row.k = "row") =>
        zip_row.credor = csv_row.credor /\ zip_row.reu = csv_row.reu

\* the gathered results stand in the order of the numbers of the chunk
InInputOrder(r) ==
    pc[r] = "persist" =>
        \A k \in 1..Len(resultados[r]) :
            resultados[r][k].t = "dict"
                => resultados[r][k].numero_cnj = numeros_para[r][Pos(r, k)]
\* salvar_processo is being entered for the result at j
SaveStarts(r) == sp[r] = "none" /\ sp'[r] = "select"
\* C28: within a chunk salvar_processo is called on the successful results in
\* the input order of their numbers, whatever the order in which the fetches
\* ended: the results stand in input order, and a call for one position starts
\* when every earlier position of the chunk has been dealt with and no later
\* one has been.
C28_SavedInInputOrder ==
    [][\A r \in Runs :
          /\ InInputOrder(r)'
          /\ SaveStarts(r) =>
                /\ Truthy(resultados[r][j[r]])
                /\ \A k \in 1..Len(resultados[r]) :
                      /\ k < j[r] => out[r][Pos(r, k)] # "none"
                      /\ k >= j[r] => out[r][Pos(r, k)] = "none"]_vars

\* the fetch of the second number ended before the fetch of the first, both
\* returned a record, and the record of the first number is saved first
C28_Witness ==
    /\ pc[1] = "persist" /\ sp[1] = "commit" /\ j[1] = 1
    /\ Len(completed[1]) >= 2 /\ completed[1][1] > completed[1][2]
    /\ \A k \in 1..2 : resultados[1][k].t = "dict"
    /\ numeros_para[1][Pos(1, 1)] # numeros_para[1][Pos(1, 2)]
    /\ out[1][Pos(1, 2)] = "none"

(* ====================== properties of formatar_cnj ===================== *)
\* the value is a text of exactly 20 digits
IsTwentyDigits(v) ==
    /\ v.k = "str" /\ Len(v.s) = 20
    /\ \A k \in 1..20 : v.s[k] \in {"0", "1", "2", "3", "4", "5", "6", "7", "8", "9"}
\* NNNNNNN-NN.NNNN.N.NN.NNNN with the digits of t in their order
IsFormOf(v, t) ==
    /\ v.k = "str" /\ Len(v.s) = 25
    /\ v.s[8] = "-" /\ \A q \in {11, 16, 18, 21} : v.s[q] = "."
    /\ SelectSeq(v.s, LAMBDA c : c \notin {"-", "."}) = t
\* what the claim says of a call of formatar_cnj that has returned
CnjContract ==
    /\ fpc \in {"once", "twice"} =>
          IF IsTwentyDigits(cnj_in) THEN IsFormOf(cnj_out, cnj_in.s)
          ELSE cnj_out = cnj_in
    /\ fpc = "twice" => cnj_again = cnj_out
    /\ \A n \in Nums :
          /\ formatar_cnj_str(CellText(Unformatted(n))) = formatar_cnj_str(CellText(n))
          /\ CellText(formatar_cnj(Unformatted(n))) = formatar_cnj_str(CellText(Unformatted(n)))
          /\ CellText(formatar_cnj(n)) = formatar_cnj_str(CellText(n))
\* C27: formatar_cnj turns a text of exactly 20 digits into the 25 character
\* form with the same digits in the same order, returns every other input
\* as it is, and is idempotent; so the unformatted and the formatted text of
\* a number get the same key in the deduplication of the upload.
C27_FormatarCnj ==
    fpc # "raised" /\ CnjContract
\* the same statement for the inputs that are texts or None
C27_OnTexts ==
    cnj_in # NaN => (fpc # "raised" /\ CnjContract)

(* ================== properties of the temporary files ================== *)
\* request r has read its temporary file back, or failed to
HasRead(r) == tpc[r] \in {"parsed", "responded", "deleted", "delete_raised", "raised"}
\* request r is over
TempOver(r) == tpc[r] \in {"deleted", "delete_raised", "raised"}
\* each request parses the bytes it uploaded itself, and every temporary
\* file written is gone once the requests are over
TempContract ==
    /\ \A r \in Runs : HasRead(r) => (tpc[r] # "raised" /\ rawdata[r] = content[r])
    /\ (\A r \in Runs : TempOver(r)) => \A path \in Paths : uploads[path] = 0
\* C29: two upload_file requests that run at the same time with the same file
\* name do not interfere: each parses the bytes it uploaded itself, the file
\* of one is neither overwritten nor deleted by the other before it was read,
\* and every temporary file written is deleted in the end.
C29_NoInterference ==
    filename[1] = filename[2] => TempContract
\* the same statement for two requests whose file names differ
C29_DistinctNames ==
    filename[1] # filename[2] => TempContract

EligibleRows ==
    LET keep == SelectSeq(df, LAMBDA n : n \in Stored(store))
    IN  [k \in 1..Len(keep) |-> [processo_id |-> keep[k]]]
\* building the row of some stored number raises
SomeRowRaises ==
    \E k \in 1..Len(df) : df[k] \in Stored(store) /\ int_raises(ano_orcamentario[k])
\* C30: upload_dados_precatorios never creates or changes a Processo; it
\* inserts a DadosPrecatorio only for the rows whose normalised number has a
\* stored Processo and passes the others over; the rows go in together in one
\* commit, and when the building of a row raises none of them goes in.
C30_FrameAndAtomic ==
    [][/\ store' = store
       /\ dados' # dados =>
             /\ dados' = dados \o EligibleRows
             /\ ~SomeRowRaises
             /\ dresp'.status = 200 /\ dresp'.inserted = Len(EligibleRows)
       /\ (dpc = "rows" /\ dpc' = "idle" /\ SomeRowRaises) =>
             (dados' = dados /\ dresp'.status = 500)
       /\ (dpc = "rows" /\ dpc' = "idle" /\ ~SomeRowRaises /\ EligibleRows = <<>>) =>
             (dados' = dados /\ dresp'.status = 200)]_vars

\* an upload of two numbers, one stored and one not, has just stored the row
\* of the first and passed the other over
C30_Witness ==
    /\ dpc = "idle" /\ dresp = [status |-> 200, inserted |-> 1]
    /\ Len(df) = 2 /\ Len(EligibleRows) = 1
    /\ Len(dados) = 1 /\ dados[1] = EligibleRows[1]
    /\ Stored(store) # {}

\* an upload in which the second row of a stored number raised while being
\* built has stored nothing, the first row included
C30_RaisedStoresNone ==
    /\ dpc = "idle" /\ dresp.status = 500 /\ drow = 2
    /\ Len(EligibleRows) = 2 /\ ~int_raises(ano_orcamentario[1])
    /\ int_raises(ano_orcamentario[2]) /\ dados = <<>>

(* ======================== properties of the export ===================== *)
\* the digits of a CPF cell of a sheet
CpfDigits(row, col) == Keep(IF row[col].k = "str" THEN row[col].s ELSE << >>, Digits)
\* no two rows of the sheet have the same case and the same non-empty CPF
OncePerCpf(rows, col) ==
    \A a, b \in 1..Len(rows) :
        (a # b /\ CpfDigits(rows[a], col) # << >>
         /\ rows[a].processo_numero_cnj = rows[b].processo_numero_cnj)
            => CpfDigits(rows[a], col) # CpfDigits(rows[b], col)
\* the rows without CPF, in their order
WithoutCpf(rows, col) == SelectSeq(rows, LAMBDA x : CpfDigits(x, col) = << >>)
\* the case has no claimant, author or attorney
NoParty(p) ==
    \A f \in 1..Len(p.fontes) : \A k \in 1..Len(p.fontes[f].envolvidos) :
        p.fontes[f].envolvidos[k].tipo_normalizado \notin {"Requerente", "Autor"}
\* C19: the sheet Requerentes has no two rows with the same case and the
\* same non-empty digits of the party's CPF, the sheet Advogados none with the
\* same case and attorney CPF, every row without CPF is kept, and every case
\* of the tribunal has a row in each sheet
C19_ExportSheets ==
    epc = "done" =>
        /\ OncePerCpf(req_final, "envolvido_cpf")
        /\ OncePerCpf(adv_final, "advogado_cpf")
        /\ WithoutCpf(req_final, "envolvido_cpf") = WithoutCpf(df_list, "envolvido_cpf")
        /\ WithoutCpf(adv_final, "advogado_cpf") = WithoutCpf(df_list, "advogado_cpf")
        /\ \A k \in 1..Len(db) :
              /\ \E a \in 1..Len(req_final) :
                    req_final[a].processo_numero_cnj = db[k].numero_cnj
              /\ \E a \in 1..Len(adv_final) :
                    adv_final[a].processo_numero_cnj = db[k].numero_cnj
\* both sheets lost repeated rows, rows without CPF repeat, and a case
\* without any party is there
C19_Witness ==
    /\ epc = "done"
    /\ Len(req_final) < Len(df_list) /\ Len(adv_final) < Len(df_list)
    /\ Len(WithoutCpf(req_final, "envolvido_cpf")) >= 2
    /\ Len(WithoutCpf(adv_final, "advogado_cpf")) >= 2
    /\ \E k \in 1..Len(db) : NoParty(db[k])

(* ================== properties of the start of the process ============= *)
\* C20: when the key is absent or empty the start fails, and in a process
\* that has not started no fetch is issued and no ingestion runs; once the
\* process is up, the key and the base URL that go into a request stay what
\* they were at the start, whatever happens to the environment
C20_KeyAtStartup ==
    [][/\ (proc = "starting" /\ environ \in {None, Str(<< >>)}) => proc' = "failed"
       /\ proc # "up" => pipeVars' = pipeVars
       /\ proc = "failed" => proc' = "failed"
       /\ proc = "up" =>
            /\ proc' = "up"
            /\ ESCAVADOR_API_KEY' = ESCAVADOR_API_KEY
            /\ headers' = headers
            /\ \A n \in Nums : url(n)' = url(n)]_vars
\* the start failed for want of a key; a key was set afterwards and still
\* nothing has run
C20_Witness ==
    /\ proc = "failed" /\ ~IsTruthy(ESCAVADOR_API_KEY) /\ IsTruthy(environ)
    /\ \A r \in Runs : pc[r] = "idle" /\ via[r] = "none"

(* ======================= properties of the coercions =================== *)
\* YYYY-MM-DD
IsIsoDate(t) == StartsWithDate(t) /\ Len(t) = 5
\* YYYY-MM-DD, "T" or a blank, HH:MM or HH:MM:SS
IsIsoDateTime(t) ==
    /\ StartsWithDate(t) /\ Len(t) >= 9
    /\ t[6] \in {"T", " "} /\ IsTime(SubSeq(t, 7, Len(t)))
\* a date block has worked on a text
DateDone ==
    cpc \in {"done", "raised"} /\ field \in DateFields \cup DateTimeFields /\ raw.k = "str"

HasPrefix(str) == Len(str) >= 2 /\ str[1] = "R" /\ str[2] = "$"
AfterPrefix(str) ==
    IF ~HasPrefix(str) THEN str
    ELSE IF Len(str) >= 3 /\ str[3] = " " THEN SubSeq(str, 4, Len(str))
    ELSE SubSeq(str, 3, Len(str))
\* digits in groups of three separated by ".", then "," and two decimals
IsLocaleAmount(b) ==
    /\ Len(b) >= 4 /\ b[Len(b) - 2] = "," /\ b[1] \in Digits
    /\ \A q \in 1..Len(b) :
          IF q > Len(b) - 2 THEN b[q] \in Digits
          ELSE IF q < Len(b) - 2
          THEN (IF (Len(b) - 2 - q) % 4 = 0 THEN b[q] = "." ELSE b[q] \in Digits)
          ELSE TRUE
\* an amount with the currency prefix and at least one thousands separator
IsLocaleMoney(str) ==
    /\ HasPrefix(str) /\ IsLocaleAmount(AfterPrefix(str))
    /\ "." \in SeqRange(str)
\* the amount it denotes: its digits, two of them decimals
LocaleValue(str) == Float(DigitsToInt(Keep(str, Digits)), 2)
\* digits, ".", digits
IsPlainDecimal(str) ==
    \E q \in 2..(Len(str) - 1) :
        str[q] = "." /\ \A x \in (1..Len(str)) \ {q} : str[x] \in Digits
PlainValue(str) ==
    Float(DigitsToInt(Keep(str, Digits)),
          Len(str) - (CHOOSE q \in 1..Len(str) : str[q] = "."))
\* a text with a letter in it
IsUnparseable(str) == \E q \in 1..Len(str) : str[q] \in {"a", "b", "c"}
\* a monetary block has worked on a text
MoneyDone ==
    /\ cpc \in {"done", "raised"} /\ raw.k = "str"
    /\ field \in {"ValorCausa.valor", "DadosPrecatorio.valor_deferido"}

\* C15 (as claimed): for valor_causa and for valor_deferido alike, a text with
\* currency prefix and thousands separators gives the decimal it denotes and
\* an unparseable text gives null without raising.
C15_LocaleMoney ==
    MoneyDone =>
        /\ IsLocaleMoney(raw.s) => coerced = LocaleValue(raw.s)
        /\ IsUnparseable(raw.s) => (coerced = None /\ cpc = "done")

\* C15 (amended): valor_deferido is cleaned and parsed as claimed; valor_causa
\* is parsed without cleaning, so a plain decimal gives its value and a
\* locale-formatted text gives null; an unparseable text gives null without
\* raising in both.
C15_MoneyCoercion ==
    MoneyDone =>
        /\ field = "DadosPrecatorio.valor_deferido" =>
              (IsLocaleAmount(AfterPrefix(raw.s)) => coerced = LocaleValue(raw.s))
        /\ field = "ValorCausa.valor" =>
              /\ IsPlainDecimal(raw.s) => coerced = PlainValue(raw.s)
              /\ IsLocaleAmount(AfterPrefix(raw.s)) => coerced = None
        /\ IsUnparseable(raw.s) => (coerced = None /\ cpc = "done")

\* valor_causa was given "R$ 1.234,56" and stored null
C15_Witness ==
    /\ cpc = "done" /\ field = "ValorCausa.valor"
    /\ raw = Str(<< "R", "$", " ", "1", ".", "2", "3", "4", ",", "5", "6" >>)
    /\ coerced = None

TypeOK ==
    /\ \A r \in Runs : pc[r] \in {"idle", "loop", "lote", "gather", "persist", "done", "raised"}
    /\ \A r \in Runs : sp[r] \in {"none", "select", "insert", "children", "commit", "except"}

====
